---- MODULE Spec2Model ----
(***************************************************************************)
(* Model of the two-phase course-analysis orchestrator                     *)
(* (backend/main.py, get_enhanced_course_analysis) together with the       *)
(* synthesis step (backend/openai_service.py), the rating lookup           *)
(* (backend/rmp_service.py) and the progress registry (ProgressUpdate).    *)
(*                                                                         *)
(* One action is one block of the coroutine between two suspension points  *)
(* (await): the action completes the pending await with one of its         *)
(* outcomes and runs the code up to the next await or to the return.       *)
(*                                                                         *)
(* Strings are sequences of one-character strings, so that strip(),        *)
(* title() and len() are computed and not assumed.                         *)
(*                                                                         *)
(* The thread connector (backend/reddit_service.py) is a blocking client:  *)
(* its calls run to completion where main.py makes the call, and the value *)
(* is then handed to await / asyncio.gather.  Completing such an await has *)
(* two outcomes in the model: the value is delivered, or the await raises  *)
(* (which is also what the connector's own re-raise produces).  With the   *)
(* blocking connector of reddit_service.py only the raising outcome        *)
(* occurs (awaiting a dict is a TypeError); the delivering outcome is the  *)
(* behaviour of main.py with an awaitable connector.                       *)
(*                                                                         *)
(* Further specifications share the module's variables: ClassifierSpec     *)
(* applies the relevance classifier of reddit_service.py to one thread and *)
(* topic drawn from a set of inputs; BusSpec runs two requests and one     *)
(* reader of the progress stream (event_generator) against the registry;   *)
(* ReaderFairSpec is one request and one reader with the reader scheduled  *)
(* fairly.  SheetsSpec, CleanSpec, ExpandSpec and FuzzySpec each call one  *)
(* function on arguments drawn from a set of inputs: the review parser of  *)
(* sheets_service.py, and the name cleaner, the name expander and the      *)
(* fuzzy matcher of professor_extraction_service.py.  Their strings are    *)
(* TLA+ strings, taken apart character by character with SubSeq.           *)
(***************************************************************************)
EXTENDS Integers, Sequences, FiniteSets, TLC

\* ---------------------------------------------------------------- bounds
MaxThreads == 2
MaxProfs == 2
\* replies of a thread given to the classifier
MaxReplies == 3
\* filler words of the long thread bodies
FillerWords == 197
\* progress events a run emits between "starting" and its terminal event
MaxProgressEvents == 1
\* rows of the review spreadsheet under the column titles
MaxRows == 3
\* names in a set of raw names
MaxRawNames == 4
\* names in a list of candidates, directory entries with the first name
\* Elena, other directory entries
MaxCandidates == 2
MaxElenas == 5
MaxOtherProfs == 1
\* names and directory entries given to the fuzzy matcher
MaxFuzzyNames == 1
MaxFuzzyProfs == 2

\* ------------------------------------------------------ program constants
\* main.py:471  len(prof_name) > 2
MinFinalizedLen == 2
\* openai_service.py:348  len(name.strip()) > 1
MinExtractedLen == 1
\* main.py:87  max_timeout = 120
max_timeout == 120

\* ------------------------------------------------------- string helpers
RECURSIVE LStrip(_)
LStrip(s) ==
    IF s = <<>> THEN <<>>
    ELSE IF Head(s) = " " THEN LStrip(Tail(s)) ELSE s

RECURSIVE RStrip(_)
RStrip(s) ==
    IF s = <<>> THEN <<>>
    ELSE IF s[Len(s)] = " " THEN RStrip(SubSeq(s, 1, Len(s) - 1)) ELSE s

\* str.strip()
Strip(s) == RStrip(LStrip(s))

Upper(c) == CASE c = "s" -> "S" [] c = "l" -> "L" [] OTHER -> c
Lower(c) == CASE c = "S" -> "s" [] c = "L" -> "l" [] OTHER -> c

\* str.title(): first letter of every word upper case, the others lower case
Title(s) ==
    [i \in 1..Len(s) |->
        IF i = 1 \/ s[i - 1] = " " THEN Upper(s[i]) ELSE Lower(s[i])]

\* ------------------------------------------------------------- universes
\* request parameters
Keywords == { <<>>, <<" ">>, <<" ", "c", "s">> }
\* session_id query parameter: "" stands for None / not given
SessionParams == { "", "s1" }
GeneratedSession == "uuid"
SessionIds == { "s1", GeneratedSession }

\* names the oracle can put in a "professors" entry (an entry without a name
\* reads as "", which the length test treats like the two-letter name) or in
\* an extraction list
RawNames == { <<"L", "i">>, <<" ", "S", "u", "n", " ">> }
ExtractionNames == { <<"L", "i">>, <<"S", "u", "n">>, <<" ", "s", "u", "n">> }

\* an entry of the "professors" array: a dict with a name, or something that
\* is not a dict (prof.get raises)
ProfEntries ==
    { [is_dict |-> TRUE, name |-> n] : n \in RawNames }
        \cup { [is_dict |-> FALSE, name |-> <<>>] }

SeqsUpTo(S, n) == UNION { [1..k -> S] : k \in 0..n }

\* Python None, also the value of json.loads("null")
None == [kind |-> "None"]

\* a parsed JSON object of the expected shape
Obj(profs) ==
    [kind |-> "obj", professors |-> profs, overall_sentiment |-> "parsed"]

\* openai_service.py:98-108, the minimal structured response
DefaultStructure ==
    [kind |-> "obj", professors |-> <<>>,
     overall_sentiment |-> "Unable to analyze - please try again"]

\* tokens of the oracle's reply text: the two code-fence markers of
\* openai_service.py:83-88, an unparseable text, the JSON document null
FenceJson == [kind |-> "fence_json"]
Fence == [kind |-> "fence"]
Garbage == [kind |-> "not json"]
JsonNull == [kind |-> "null"]

Payloads ==
    { Obj(p) : p \in SeqsUpTo(ProfEntries, MaxProfs) } \cup { JsonNull, Garbage }

OracleTexts ==
    UNION { { <<p>>, <<FenceJson, p, Fence>>, <<Fence, p, Fence>> } : p \in Payloads }

\* outcome of chat.completions.create: an API error, or a reply text
OracleOutcomes ==
    { [raised |-> TRUE, text |-> <<>>] }
        \cup { [raised |-> FALSE, text |-> t] : t \in OracleTexts }

\* outcome of format_for_ai_analysis: "" when the sheet has no review of the
\* class, else the formatted text (it starts with "UCR Class ...")
UcrTexts == { <<>>, <<"U", "C", "R">> }

\* what becomes of one thread id of the search result: its full-content fetch
\* failed, or it was fetched and the classifier rejects it, accepts it or
\* raises on it for the topic of the run
ThreadStatus == { "failed", "offtopic", "about", "raises" }

\* order-preserving selection of the elements of s at the indices in I
Pick(s, I) ==
    LET F[i \in 0..Len(s)] ==
            IF i = 0 THEN <<>>
            ELSE IF i \in I THEN Append(F[i - 1], s[i]) ELSE F[i - 1]
    IN F[Len(s)]

Range(s) == { s[i] : i \in 1..Len(s) }

\* ----------------------------------------------------- progress registry
Ev(step, progress) == [step |-> step, progress |-> progress]

emit_AtFront(evs, step, progress) == << Ev(step, progress) >> \o evs

\* ProgressUpdate.emit: append to the object's own list
emit(evs, step, progress) == Append(evs, Ev(step, progress))

\* ProgressUpdate.cleanup: remove the session from the registry if present
cleanup(tracker, sid) == tracker \ {sid}

\* ------------------------------------------------------- synthesis step
\* json.loads on the reply text: a single JSON document parses, everything
\* else (fenced text, other text) raises JSONDecodeError
JsonLoads(text) ==
    IF Len(text) = 1 /\ text[1].kind \in {"obj", "null"}
    THEN [ok |-> TRUE, value |-> IF text[1].kind = "null" THEN None ELSE text[1]]
    ELSE [ok |-> FALSE, value |-> None]

\* openai_service.py:80-90, stripping the code-fence markers
CleanResponse(text) ==
    LET c1 == IF text # <<>> /\ Head(text) = FenceJson THEN Tail(text) ELSE text
        c2 == IF c1 # <<>> /\ Head(c1) = Fence THEN Tail(c1) ELSE c1
        c3 == IF c2 # <<>> /\ c2[Len(c2)] = Fence
              THEN SubSeq(c2, 1, Len(c2) - 1) ELSE c2
    IN c3

ParseSynthesisResponse_NoFallback(text) ==
    LET first == JsonLoads(text)
        second == JsonLoads(CleanResponse(text))
    IN IF first.ok
       THEN [success |-> TRUE, structured_data |-> first.value,
             cleanup_attempts |-> 0, fallback |-> FALSE]
       ELSE IF second.ok
       THEN [success |-> TRUE, structured_data |-> second.value,
             cleanup_attempts |-> 1, fallback |-> FALSE]
       ELSE [success |-> FALSE, structured_data |-> None,
             cleanup_attempts |-> 1, fallback |-> FALSE]

\* openai_service.py:69-108: parse, on failure clean once and parse again, on
\* a second failure fall back to the minimal structured response
ParseSynthesisResponse(text) ==
    LET first == JsonLoads(text)
        second == JsonLoads(CleanResponse(text))
    IN IF first.ok
       THEN [success |-> TRUE, structured_data |-> first.value,
             cleanup_attempts |-> 0, fallback |-> FALSE]
       ELSE IF second.ok
       THEN [success |-> TRUE, structured_data |-> second.value,
             cleanup_attempts |-> 1, fallback |-> FALSE]
       ELSE [success |-> TRUE, structured_data |-> DefaultStructure,
             cleanup_attempts |-> 1, fallback |-> TRUE]

\* the rmp_data of a course_data dict
NoRmpData == [enabled |-> FALSE, professors |-> <<>>, error |-> FALSE]

CourseData(posts, ucr, rmp) ==
    [posts |-> posts, ucr_database |-> ucr, rmp_data |-> rmp]

\* openai_service.py:32  not posts and not ucr_database and not professors
NoDataToAnalyze(cd) ==
    cd.posts = <<>> /\ cd.ucr_database = <<>> /\ cd.rmp_data.professors = <<>>

\* what a failed call returns: no "analysis" key, so .get("analysis") is None
AnalysisFailure == [success |-> FALSE, analysis |-> None]

\* AsyncOpenAIService.analyze_course_discussions_structured.  o is the outcome
\* of the oracle call, used only when the call is made.  ret is the returned
\* dict; the other fields count what the step did.
analyze_course_discussions_structured(cd, o) ==
    IF NoDataToAnalyze(cd)
    THEN [ret |-> AnalysisFailure, oracle_calls |-> 0,
          cleanup_attempts |-> 0, fallback |-> FALSE]
    ELSE IF o.raised
    THEN [ret |-> AnalysisFailure, oracle_calls |-> 1,
          cleanup_attempts |-> 0, fallback |-> FALSE]
    ELSE LET p == ParseSynthesisResponse(o.text)
         IN [ret |-> [success |-> p.success, analysis |-> p.structured_data],
             oracle_calls |-> 1,
             cleanup_attempts |-> p.cleanup_attempts, fallback |-> p.fallback]

\* ------------------------------------------------------ name extraction
FinalizedProfessors_NoLengthFilter(analysis) ==
    IF analysis.kind # "obj" THEN <<>>
    ELSE IF \E i \in 1..Len(analysis.professors) : ~analysis.professors[i].is_dict
    THEN <<>>
    ELSE LET names == [i \in 1..Len(analysis.professors) |->
                          Strip(analysis.professors[i].name)]
         IN SelectSeq(names, LAMBDA n : n # <<>>)

\* main.py:463-478: the stripped names of the first-pass "professors" entries
\* that are longer than 2 characters; any exception empties the list
FinalizedProfessors(analysis) ==
    IF analysis.kind # "obj" THEN <<>>
    ELSE IF \E i \in 1..Len(analysis.professors) : ~analysis.professors[i].is_dict
    THEN <<>>
    ELSE LET names == [i \in 1..Len(analysis.professors) |->
                          Strip(analysis.professors[i].name)]
         IN SelectSeq(names, LAMBDA n : n # <<>> /\ Len(n) > MinFinalizedLen)

\* openai_service.py:346-351: strip and title-case the names longer than one
\* character, dropping repetitions
RECURSIVE CleanExtracted(_, _)
CleanExtracted(names, acc) ==
    IF names = <<>> THEN acc
    ELSE LET n == Head(names)
             c == Title(Strip(n))
         IN IF Len(Strip(n)) > MinExtractedLen /\ c \notin Range(acc)
            THEN CleanExtracted(Tail(names), Append(acc, c))
            ELSE CleanExtracted(Tail(names), acc)

\* outcome of the extraction oracle: a failure / non-list reply, or a list
ExtractionOutcomes ==
    { [ok |-> FALSE, names |-> <<>>] }
        \cup { [ok |-> TRUE, names |-> l] : l \in SeqsUpTo(ExtractionNames, MaxProfs) }

\* AsyncOpenAIService.extract_all_professor_names
extract_all_professor_names(cd, o) ==
    IF cd.posts = <<>> /\ cd.ucr_database = <<>>
    THEN [names |-> <<>>, oracle_calls |-> 0]
    ELSE IF ~o.ok THEN [names |-> <<>>, oracle_calls |-> 1]
    ELSE [names |-> CleanExtracted(o.names, <<>>), oracle_calls |-> 1]

\* --------------------------------------------------------- rating lookup
\* what get_course_specific_professor_data returns for the names searched:
\* the school was not found (a dict without "success", rmp_service.py:903),
\* an internal error (success False, rmp_service.py:963-970), or success with
\* the records of the names that matched, in the order searched
RmpResults(names) ==
    { [kind |-> "no_school", professors |-> <<>>],
      [kind |-> "failed", professors |-> <<>>] }
        \cup { [kind |-> "ok", professors |-> Pick(names, I)] :
                 I \in SUBSET (1..Len(names)) }

\* main.py:495  rmp_result["success"] raises KeyError without the key
LookupRaises(res) == res.kind = "no_school"

\* main.py:508  rmp_data = {"enabled": True, "error": str(e)}
RmpDataOnError == [enabled |-> TRUE, professors |-> <<>>, error |-> TRUE]

\* main.py:496-501 / 354-359: the rmp_data built from a successful result
RmpDataFrom(res) ==
    IF res.kind = "ok"
    THEN [enabled |-> TRUE, professors |-> res.professors, error |-> FALSE]
    ELSE NoRmpData

TargetedLookupOutcome_Uncaught(res) ==
    [fatal |-> LookupRaises(res), rmp_data |-> RmpDataFrom(res)]

\* main.py:487-508: the try around the targeted lookup; an exception is
\* caught and leaves rmp_data = {"enabled": True, "error": ...}
TargetedLookupOutcome(res) ==
    [fatal |-> FALSE,
     rmp_data |-> IF LookupRaises(res) THEN RmpDataOnError ELSE RmpDataFrom(res)]

\* main.py:345-361: the same on the database-only path; an exception is
\* caught and leaves rmp_data at its default
DatabaseLookupOutcome(res) ==
    [fatal |-> FALSE,
     rmp_data |-> IF LookupRaises(res) THEN NoRmpData ELSE RmpDataFrom(res)]

HasRmpProfessors_Enabled(rmp) == rmp.enabled

\* main.py:511  if rmp_data.get("professors")
HasRmpProfessors(rmp) == rmp.professors # <<>>

NoDatabaseData_Never(ucr_data) == FALSE

\* main.py:326  not ucr_data or ucr_data.strip() == ""
NoDatabaseData(ucr_data) == ucr_data = <<>> \/ Strip(ucr_data) = <<>>

filter_posts_for_main_topic_Unfiltered(posts, kw) == posts

\* RedditService.filter_posts_for_main_topic: the posts the classifier
\* accepts, in order (an empty list or keyword is returned as is)
filter_posts_for_main_topic(posts, kw) ==
    IF posts = <<>> \/ kw = <<>> THEN posts
    ELSE SelectSeq(posts, LAMBDA p : p.about)

\* reddit_service.py:314-316: the loop calls the classifier on every post and
\* catches nothing, so the filter raises when the classifier does
FilterRaises(posts, kw) ==
    /\ posts # <<>>
    /\ kw # <<>>
    /\ \E i \in 1..Len(posts) : posts[i].raises

\* ------------------------------------------------------ thread fetching
\* RedditService.get_full_post_content_for_ai for the thread post_id: every
\* exception is caught and reported as success False (reddit_service.py:177-184)
get_full_post_content_for_ai(post_id, status) ==
    [success |-> status # "failed",
     post |-> [id |-> post_id, about |-> status = "about",
               raises |-> status = "raises"]]

\* reddit_service.py:195-209: the loop over the requested ids, appending the
\* threads fetched with success
RECURSIVE FetchLoop(_, _, _)
FetchLoop(post_ids, status, acc) ==
    IF post_ids = <<>> THEN acc
    ELSE LET full_post_data ==
                 get_full_post_content_for_ai(Head(post_ids), status[Head(post_ids)])
         IN FetchLoop(Tail(post_ids), status,
                      IF full_post_data.success
                      THEN Append(acc, full_post_data.post) ELSE acc)

get_multiple_posts_for_ai_AbortOnFailure(post_ids, status) ==
    IF \E i \in 1..Len(post_ids) : status[post_ids[i]] = "failed"
    THEN [success |-> FALSE, data |-> <<>>]
    ELSE [success |-> TRUE, data |-> FetchLoop(post_ids, status, <<>>)]

\* RedditService.get_multiple_posts_for_ai.  status maps each thread id to
\* what becomes of its fetch.
get_multiple_posts_for_ai(post_ids, status) ==
    [success |-> TRUE, data |-> FetchLoop(post_ids, status, <<>>)]

\* ---------------------------------------------------- relevance filter
\* The classifier works on Python strings; they are TLA+ strings here, and
\* every string operation of the code is computed character by character.
Char(s, i) == SubSeq(s, i, i)

UpperCase == "ABCDEFGHIJKLMNOPQRSTUVWXYZ"
LowerCase == "abcdefghijklmnopqrstuvwxyz"

UpperLetters == { Char(UpperCase, k) : k \in 1..Len(UpperCase) }
LowerOf ==
    [c \in UpperLetters |->
        Char(LowerCase, CHOOSE k \in 1..Len(UpperCase) : Char(UpperCase, k) = c)]

LowerChar(c) == IF c \in UpperLetters THEN LowerOf[c] ELSE c

\* str.lower()
RECURSIVE StrLower(_)
StrLower(s) ==
    IF Len(s) = 0 THEN ""
    ELSE IF Len(s) = 1 THEN LowerChar(s)
    ELSE StrLower(SubSeq(s, 1, Len(s) \div 2))
             \o StrLower(SubSeq(s, Len(s) \div 2 + 1, Len(s)))

\* str.replace(c, '') for a one-character c
RECURSIVE RemoveChar(_, _)
RemoveChar(s, c) ==
    IF Len(s) = 0 THEN ""
    ELSE IF Len(s) = 1 THEN (IF s = c THEN "" ELSE s)
    ELSE RemoveChar(SubSeq(s, 1, Len(s) \div 2), c)
             \o RemoveChar(SubSeq(s, Len(s) \div 2 + 1, Len(s)), c)

\* sub in s
StrContains(sub, s) ==
    \E i \in 1..(Len(s) - Len(sub) + 1) : SubSeq(s, i, i + Len(sub) - 1) = sub

\* len(s.split()): the number of maximal runs of non-blank characters
WordCount(s) ==
    Cardinality({ i \in 1..Len(s) :
                    Char(s, i) # " " /\ (i = 1 \/ Char(s, i - 1) = " ") })

\* ' '.join(parts)
RECURSIVE StrJoin(_)
StrJoin(parts) ==
    IF parts = <<>> THEN ""
    ELSE IF Len(parts) = 1 THEN parts[1]
    ELSE parts[1] \o " " \o StrJoin(Tail(parts))

\* the text w repeated n times
RECURSIVE Repeat(_, _)
Repeat(w, n) ==
    IF n = 0 THEN ""
    ELSE IF n = 1 THEN w
    ELSE Repeat(w, n \div 2) \o Repeat(w, n - n \div 2)

\* re.compile raises re.error for the pattern: a "(" that no ")" closes
\* (missing ), unterminated subpattern)
ReCompileError(pattern) ==
    \E i \in 1..Len(pattern) :
        /\ Char(pattern, i) = "("
        /\ ~\E j \in (i + 1)..Len(pattern) : Char(pattern, j) = ")"

\* the positions from i on at which the literal pattern occurs in s
MatchesFrom(pattern, s, i) ==
    { j \in i..(Len(s) - Len(pattern) + 1) :
        SubSeq(s, j, j + Len(pattern) - 1) = pattern }

\* the non-overlapping occurrences of a literal pattern in s from index i on,
\* scanning left to right: the leftmost one, then those after its end
RECURSIVE CountFrom(_, _, _)
CountFrom(pattern, s, i) ==
    LET m == MatchesFrom(pattern, s, i)
    IN IF m = {} THEN 0
       ELSE LET first == CHOOSE j \in m : \A k \in m : j <= k
            IN 1 + CountFrom(pattern, s, first + Len(pattern))

\* len(re.findall(pattern, s)).  The empty pattern matches at every position
\* (len(s) + 1 matches); a pattern of letters and digits is a literal.  The
\* topics of the model are such patterns or patterns that do not compile.
ReFindallCount(pattern, s) ==
    IF ReCompileError(pattern) THEN [raised |-> TRUE, count |-> 0]
    ELSE IF pattern = "" THEN [raised |-> FALSE, count |-> Len(s) + 1]
    ELSE [raised |-> FALSE, count |-> CountFrom(pattern, s, 1)]

\* reddit_service.py:237-249
list_indicators ==
    { "anybody have these classes", "anyone take these", "has anyone taken",
      "schedule help", "class recommendations", "which classes", "what classes",
      "need help choosing", "course selection", "registration help",
      "what should i take" }

\* reddit_service.py:265-270
title_focused_keywords ==
    { "review", "experience", "professor", "prof", "difficulty", "tips",
      "advice", "grade", "exam", "final", "midterm", "homework", "assignment",
      "how is", "taking", "took", "thoughts on", "opinions on", "recommend",
      "easy", "hard", "worth it", "skip", "avoid" }

\* reddit_service.py:261  course_code_matches / total_words < 0.005
ListDensityPerMille == 5
\* reddit_service.py:284  course_mentions / content_words >= 0.01
BodyDensityPerMille == 10
\* reddit_service.py:279  len(content_lower) > 50
MinBodyLen == 50
\* reddit_service.py:290  len(c.get('body', '')) > 30
MinCommentLen == 30
\* reddit_service.py:294  len(relevant_comments) >= 2
MinRelevantComments == 2
\* reddit_service.py:299  len(content_lower) > 20 or len(comments) > 2
FallbackBodyLen == 20
FallbackComments == 2

\* reddit_service.py:232  search_keyword.lower().replace(' ', '').replace('-', '')
CourseCode(search_keyword) ==
    RemoveChar(RemoveChar(StrLower(search_keyword), " "), "-")

\* reddit_service.py:251-252
IsListPost(title_lower, content_lower) ==
    \E indicator \in list_indicators :
        StrContains(indicator, title_lower) \/ StrContains(indicator, content_lower)

\* reddit_service.py:256
AllText(title_lower, content_lower, comments) ==
    title_lower \o " " \o content_lower \o " "
        \o StrJoin([i \in 1..Len(comments) |-> StrLower(comments[i].body)])

TitleFocusedOnCourse_Skipped(course_code, title_lower) == FALSE

\* reddit_service.py:272-273
TitleFocusedOnCourse(course_code, title_lower) ==
    /\ StrContains(course_code, title_lower)
    /\ \E k \in title_focused_keywords : StrContains(k, title_lower)

\* reddit_service.py:288-291
RelevantComments(course_code, comments) ==
    SelectSeq(comments,
              LAMBDA c : StrContains(course_code, StrLower(c.body))
                            /\ Len(c.body) > MinCommentLen)

Verdict(v) == [raised |-> FALSE, value |-> v]
ReError == [raised |-> TRUE, value |-> FALSE]

\* RedditService._is_main_topic_about_course, reddit_service.py:264-302: the
\* rules after the list-post rule
RulesAfterListRule(course_code, title_lower, content_lower, comments) ==
    LET body == ReFindallCount(course_code, content_lower)
        content_words == WordCount(content_lower)
    IN IF TitleFocusedOnCourse(course_code, title_lower) THEN Verdict(TRUE)
       ELSE IF content_lower # "" /\ Len(content_lower) > MinBodyLen /\ body.raised
       THEN ReError
       ELSE IF /\ content_lower # "" /\ Len(content_lower) > MinBodyLen
               /\ content_words > 0
               /\ body.count * 1000 >= BodyDensityPerMille * content_words
       THEN Verdict(TRUE)
       ELSE IF Len(RelevantComments(course_code, comments)) >= MinRelevantComments
       THEN Verdict(TRUE)
       ELSE IF /\ StrContains(course_code, title_lower)
               /\ (Len(content_lower) > FallbackBodyLen
                      \/ Len(comments) > FallbackComments)
       THEN Verdict(TRUE)
       ELSE Verdict(FALSE)

\* RedditService._is_main_topic_about_course: the verdict, or the re.error
\* that re.findall raises for a topic that is no regular expression
is_main_topic_about_course(post_data, search_keyword) ==
    LET course_code == CourseCode(search_keyword)
        title_lower == StrLower(post_data.post.title)
        content_lower == StrLower(post_data.post.selftext)
        all_text == AllText(title_lower, content_lower, post_data.comments)
        all == ReFindallCount(course_code, all_text)
        total_words == WordCount(all_text)
    IN IF IsListPost(title_lower, content_lower) /\ all.raised THEN ReError
       ELSE IF /\ IsListPost(title_lower, content_lower)
               /\ total_words > 0
               /\ all.count * 1000 < ListDensityPerMille * total_words
       THEN Verdict(FALSE)
       ELSE RulesAfterListRule(course_code, title_lower, content_lower,
                               post_data.comments)

\* the inputs of the classifier: topics as callers write them (the last two
\* normalise to the empty token and to a text that is no regular expression)
Topics == { "CS1", "cs-1", " - ", "CS1 (" }

Titles ==
    { "CS1 professor review", "cs1", "CS1 review which classes",
      "schedule help", "midterm", "CS1 midterm", "cs-1 review" }

\* bodies: none, up to 20 characters, up to 50, longer with and without the
\* topic
ShortBodies ==
    { "", "ok", "is this class any good at all",
      "cs1 was fine and the labs for cs1 were long but fair overall",
      "the lectures were recorded and the homework was due weekly" }

\* bodies of enumeration posts padded with filler words
PaddedBodies ==
    { "what classes" \o Repeat(" x", FillerWords),
      "what classes" \o Repeat(" x", FillerWords + 2) }

\* reply bodies: with the topic and short, with the topic and longer than 30
\* characters, without the topic
CommentBodies ==
    { "cs1 ok", "i took cs1 last quarter and it was a lot of work", "same" }

\* the replies under a padded post: none, or two that the reply rule counts
PaddedReplies ==
    { <<>>, << "i took cs1 last quarter and it was a lot of work",
               "i took cs1 last quarter and it was a lot of work" >> }

PostData(title, selftext, bodies) ==
    [post |-> [title |-> title, selftext |-> selftext],
     comments |-> [i \in 1..Len(bodies) |-> [body |-> bodies[i]]]]

\* the threads given to the classifier
Threads ==
    { PostData(t, b, r) :
        t \in Titles, b \in ShortBodies, r \in SeqsUpTo(CommentBodies, MaxReplies) }
      \cup { PostData(t, b, r) : t \in Titles, b \in PaddedBodies, r \in PaddedReplies }

\* ------------------------------------------------------ review records
\* str.strip() and str.upper() on strings (the blanks of the model are spaces)
RECURSIVE StrLStrip(_)
StrLStrip(s) ==
    IF Len(s) > 0 /\ Char(s, 1) = " " THEN StrLStrip(SubSeq(s, 2, Len(s))) ELSE s

RECURSIVE StrRStrip(_)
StrRStrip(s) ==
    IF Len(s) > 0 /\ Char(s, Len(s)) = " "
    THEN StrRStrip(SubSeq(s, 1, Len(s) - 1)) ELSE s

StrStrip(s) == StrRStrip(StrLStrip(s))

LowerLetters == { Char(LowerCase, k) : k \in 1..Len(LowerCase) }
UpperOf ==
    [c \in LowerLetters |->
        Char(UpperCase, CHOOSE k \in 1..Len(LowerCase) : Char(LowerCase, k) = c)]

UpperChar(c) == IF c \in LowerLetters THEN UpperOf[c] ELSE c

RECURSIVE StrUpper(_)
StrUpper(s) ==
    IF Len(s) = 0 THEN ""
    ELSE UpperChar(Char(s, 1)) \o StrUpper(SubSeq(s, 2, Len(s)))

DigitChars == "0123456789"
IsDigit(c) == \E k \in 1..Len(DigitChars) : Char(DigitChars, k) = c
DigitValue(c) == (CHOOSE k \in 1..Len(DigitChars) : Char(DigitChars, k) = c) - 1

IsDigits(s) == Len(s) > 0 /\ \A i \in 1..Len(s) : IsDigit(Char(s, i))

\* the number a string of digits denotes
RECURSIVE NatOf(_)
NatOf(s) ==
    IF Len(s) = 0 THEN 0
    ELSE NatOf(SubSeq(s, 1, Len(s) - 1)) * 10 + DigitValue(Char(s, Len(s)))

\* a float, kept in tenths (the decimal texts of the model have at most one
\* digit after the point), and the float inf
Float(tenths) == [kind |-> "float", tenths |-> tenths]
Inf == [kind |-> "inf"]
IntValue(n) == [kind |-> "int", value |-> n]

\* float(text): digits, digits "." digit, or digits "e" digits; raised stands
\* for ValueError.  A mantissa other than 0 with an exponent beyond 308, the
\* largest of a double, gives inf.
ParseFloat(text) ==
    LET s == StrStrip(text)
        dots == { i \in 1..Len(s) : Char(s, i) = "." }
        exps == { i \in 1..Len(s) : Char(s, i) = "e" }
    IN IF IsDigits(s) THEN [raised |-> FALSE, value |-> Float(NatOf(s) * 10)]
       ELSE IF /\ dots = { Len(s) - 1 }
               /\ IsDigits(SubSeq(s, 1, Len(s) - 2))
               /\ IsDigit(Char(s, Len(s)))
       THEN [raised |-> FALSE,
             value |-> Float(NatOf(SubSeq(s, 1, Len(s) - 2)) * 10
                                + DigitValue(Char(s, Len(s))))]
       ELSE IF /\ Cardinality(exps) = 1
               /\ \A i \in exps :
                      /\ IsDigits(SubSeq(s, 1, i - 1))
                      /\ IsDigits(SubSeq(s, i + 1, Len(s)))
                      /\ NatOf(SubSeq(s, 1, i - 1)) > 0
                      /\ NatOf(SubSeq(s, i + 1, Len(s))) > 308
       THEN [raised |-> FALSE, value |-> Inf]
       ELSE [raised |-> TRUE, value |-> None]

\* sheets_service.py:66-70: int(float(text)) for a non-blank column d.
\* ValueError is caught there (no rating); OverflowError, raised by int(inf),
\* is not, and leaves the row's try block (sheets_service.py:97-99).
IndividualDifficulty(row) ==
    IF Len(row) > 3 /\ StrStrip(row[4]) # ""
    THEN LET f == ParseFloat(StrStrip(row[4]))
         IN IF f.raised THEN [overflow |-> FALSE, value |-> None]
            ELSE IF f.value.kind = "inf" THEN [overflow |-> TRUE, value |-> None]
            ELSE [overflow |-> FALSE, value |-> IntValue(f.value.tenths \div 10)]
    ELSE [overflow |-> FALSE, value |-> None]

\* sheets_service.py:81-85: float(avg_difficulty_str), None when it is blank
\* or no number
AverageDifficulty(avg_difficulty_str) ==
    IF avg_difficulty_str = "" THEN None
    ELSE LET f == ParseFloat(avg_difficulty_str)
         IN IF f.raised THEN None ELSE f.value

\* ClassReview (sheets_service.py:10-17); row_num is the number the loop gives
\* the row (sheets_service.py:51), kept with the review for the record
ClassReview(class_code, average_difficulty, additional_comments, difficulty, date, row_num) ==
    [class_code |-> class_code, average_difficulty |-> average_difficulty,
     additional_comments |-> additional_comments, difficulty |-> difficulty,
     date |-> date, row_num |-> row_num]

\* the state of the loop of fetch_ucr_class_data (sheets_service.py:44-46);
\* current_class is tested for truth only, "" stands for None
NoClass ==
    [reviews |-> <<>>, current_class |-> "", current_avg_difficulty |-> None]

\* sheets_service.py:51-99: one round of the loop, on the row numbered row_num
ParseRow(st, row, row_num) ==
    IF Len(row) < 3 THEN st
    ELSE LET class_code == StrUpper(StrStrip(row[1]))
             avg_difficulty_str == StrStrip(row[2])
             comments == StrStrip(row[3])
             individual_difficulty == IndividualDifficulty(row)
             date == IF Len(row) > 4 THEN StrStrip(row[5]) ELSE ""
             current_class ==
                 IF class_code # "" THEN class_code ELSE st.current_class
             current_avg_difficulty ==
                 IF class_code # "" THEN AverageDifficulty(avg_difficulty_str)
                 ELSE st.current_avg_difficulty
         IN IF individual_difficulty.overflow THEN st
            ELSE [reviews |->
                      IF current_class # "" /\ comments # ""
                      THEN Append(st.reviews,
                                  ClassReview(current_class, current_avg_difficulty,
                                              comments, individual_difficulty.value,
                                              date, row_num))
                      ELSE st.reviews,
                  current_class |-> current_class,
                  current_avg_difficulty |-> current_avg_difficulty]

\* the loop over the rows from the one numbered row_num on
RECURSIVE ParseRows(_, _, _)
ParseRows(st, rows, row_num) ==
    IF rows = <<>> THEN st
    ELSE ParseRows(ParseRow(st, Head(rows), row_num), Tail(rows), row_num + 1)

\* SheetsService.fetch_ucr_class_data on the rows csv.reader gives: the first
\* row (the column titles) is skipped, the others are numbered from 2
fetch_ucr_class_data(csv_rows) ==
    IF csv_rows = <<>> THEN <<>>
    ELSE ParseRows(NoClass, Tail(csv_rows), 2).reviews

\* the rows of the export: the column titles, and under them rows that start
\* a class (with and without a comment, with an average that is no number),
\* rows that carry on a class, a row of two columns that names a class, and
\* a row that names a class and has a rating beyond the range of a float
TitleRow ==
    << "Class", "Average Difficulty", "Additional Comments", "Difficulty", "Date" >>

DataRows ==
    { << "cs10", "3.5", "", "", "" >>,
      << " ee1 ", "n/a", "hard", "4", "2020" >>,
      << "", "", "good", "3.0", "2021" >>,
      << " ", "9", "ok", "x", "" >>,
      << "ma9", "2.0" >>,
      << "ph2", "1.5", "fine", "1e999" >>,
      << "", "", "meh" >> }

\* what csv.reader gives: nothing, or the titles and up to MaxRows rows
CsvRows == { <<>> } \cup { << TitleRow >> \o rows : rows \in SeqsUpTo(DataRows, MaxRows) }

\* ------------------------------------------------------ instructor names
\* professor_extraction_service.py:143-147
non_name_words ==
    { "said", "told", "asked", "think", "know", "like", "good", "bad", "easy",
      "hard", "test", "exam", "homework", "assignment", "grade", "class",
      "course", "section", "chapter", "book", "page", "time" }

\* professor_extraction_service.py:151  len(name) < 3 or len(name) > 50
MinNameLen == 3
MaxNameLen == 50

\* professor_extraction_service.py:143-148
HasNonNameWord(name) ==
    \E word \in non_name_words : StrContains(word, StrLower(name))

\* professor_extraction_service.py:155  any(char.isdigit() for char in name)
HasDigit(name) == \E i \in 1..Len(name) : IsDigit(Char(name, i))

\* professor_extraction_service.py:141-158: the names that pass the three
\* tests, stripped, in the order of the iteration
RECURSIVE CleanedNames(_)
CleanedNames(names) ==
    IF names = <<>> THEN <<>>
    ELSE LET name == Head(names)
         IN IF \/ HasNonNameWord(name)
               \/ Len(name) < MinNameLen \/ Len(name) > MaxNameLen
               \/ HasDigit(name)
            THEN CleanedNames(Tail(names))
            ELSE << StrStrip(name) >> \o CleanedNames(Tail(names))

\* professor_extraction_service.py:160-166 and 213-219: the first of the
\* names equal in lower case is kept
RECURSIVE UniqueIgnoringCase(_, _)
UniqueIgnoringCase(names, seen) ==
    IF names = <<>> THEN <<>>
    ELSE IF StrLower(Head(names)) \in seen
    THEN UniqueIgnoringCase(Tail(names), seen)
    ELSE << Head(names) >>
             \o UniqueIgnoringCase(Tail(names), seen \cup { StrLower(Head(names)) })

\* ProfessorExtractionService.clean_and_normalize_names, on the names in the
\* order in which the set is iterated
clean_and_normalize_names(raw_names) ==
    UniqueIgnoringCase(CleanedNames(raw_names), {})

\* the names given to clean_and_normalize_names: those of the example of the
\* specification, a name in two spellings, a name between blanks, a name
\* with a digit and a name of 51 letters
ExampleNames == { "Said123", "Ab", "Professor Chrobak", "The Class" }

CandidateNames ==
    ExampleNames \cup { "professor chrobak", " Li ", "Kim7", Repeat("a", MaxNameLen + 1) }

\* the sets of up to MaxRawNames names
RawNameSets == { S \in SUBSET CandidateNames : Cardinality(S) <= MaxRawNames }

\* the orders in which a set can be iterated
Orderings(S) ==
    { f \in [1..Cardinality(S) -> S] : \A i, j \in 1..Cardinality(S) : f[i] = f[j] => i = j }

\* professor_extraction_service.py:26-42
name_variations ==
    [k \in { "elena", "mike", "dave", "chris", "steve", "bob", "jim", "bill",
             "dan", "joe", "alex", "sam", "pat", "tony", "nick" } |->
        CASE k = "elena" -> { "elena" }
          [] k = "mike" -> { "michael", "mike", "mikhail" }
          [] k = "dave" -> { "david", "dave" }
          [] k = "chris" -> { "christopher", "chris", "christian" }
          [] k = "steve" -> { "steven", "steve", "stephen" }
          [] k = "bob" -> { "robert", "bob", "bobby" }
          [] k = "jim" -> { "james", "jim", "jimmy" }
          [] k = "bill" -> { "william", "bill", "billy" }
          [] k = "dan" -> { "daniel", "dan", "danny" }
          [] k = "joe" -> { "joseph", "joe", "joey" }
          [] k = "alex" -> { "alexander", "alexandra", "alex", "alexis" }
          [] k = "sam" -> { "samuel", "samantha", "sam" }
          [] k = "pat" -> { "patrick", "patricia", "pat" }
          [] k = "tony" -> { "anthony", "antonio", "tony" }
          [] k = "nick" -> { "nicholas", "nick", "nicolas" }]

\* professor_extraction_service.py:205  best_matches[:3]
MaxMatches == 3

\* str.split(): the maximal runs of non-blank characters, in order
RECURSIVE StrSplit(_)
StrSplit(s) ==
    LET t == StrLStrip(s)
        blanks == { i \in 1..Len(t) : Char(t, i) = " " }
    IN IF t = "" THEN <<>>
       ELSE IF blanks = {} THEN << t >>
       ELSE LET first == CHOOSE i \in blanks : \A j \in blanks : i <= j
            IN << SubSeq(t, 1, first - 1) >> \o StrSplit(SubSeq(t, first, Len(t)))

\* an entry of the directory (a dict with firstName and lastName)
Professor(firstName, lastName) == [firstName |-> firstName, lastName |-> lastName]

\* professor_extraction_service.py:190, 230
FullName(prof) == prof.firstName \o " " \o prof.lastName

\* professor_extraction_service.py:187-202: the entry matches the single word
\* by its first name, by its last name, or by a variation of the word
MatchesPartialName(single_name, prof) ==
    LET first_name == StrLower(prof.firstName)
        last_name == StrLower(prof.lastName)
    IN \/ single_name = first_name
       \/ single_name = last_name
       \/ /\ single_name \in DOMAIN name_variations
          /\ first_name \in name_variations[single_name]

\* professor_extraction_service.py:185-202: the full names of the matching
\* entries, in directory order
BestMatches(single_name, rmp_professors) ==
    LET matching == SelectSeq(rmp_professors,
                              LAMBDA prof : MatchesPartialName(single_name, prof))
    IN [i \in 1..Len(matching) |-> FullName(matching[i])]

ExpandName_Uncapped(name, rmp_professors) ==
    LET words == StrSplit(StrStrip(StrLower(name)))
    IN IF Len(words) = 1 /\ BestMatches(words[1], rmp_professors) # <<>>
       THEN BestMatches(words[1], rmp_professors)
       ELSE << name >>

\* professor_extraction_service.py:175-209: what one name adds to
\* expanded_names
ExpandName(name, rmp_professors) ==
    LET words == StrSplit(StrStrip(StrLower(name)))
    IN IF Len(words) >= 2 THEN << name >>
       ELSE IF Len(words) = 1
       THEN LET best_matches == BestMatches(words[1], rmp_professors)
            IN IF best_matches # <<>>
               THEN SubSeq(best_matches, 1,
                           IF Len(best_matches) < MaxMatches
                           THEN Len(best_matches) ELSE MaxMatches)
               ELSE << name >>
       ELSE << name >>

\* professor_extraction_service.py:175-209: the loop over the names
RECURSIVE ExpandedNames(_, _)
ExpandedNames(names, rmp_professors) ==
    IF names = <<>> THEN <<>>
    ELSE ExpandName(Head(names), rmp_professors)
             \o ExpandedNames(Tail(names), rmp_professors)

\* ProfessorExtractionService.expand_partial_names
expand_partial_names(names, rmp_professors) ==
    UniqueIgnoringCase(ExpandedNames(names, rmp_professors), {})

\* the directory: up to MaxElenas of the entries whose first name is Elena,
\* and before or after them up to MaxOtherProfs other entries (one with a
\* first name that is a variation of "mike", one with the last name Smith,
\* one with the last name Elena)
Elenas ==
    << Professor("Elena", "Smith"), Professor("Elena", "Jones"),
       Professor("Elena", "Kim"), Professor("Elena", "Park"),
       Professor("Elena", "Diaz"), Professor("Elena", "Cruz") >>

OtherProfs ==
    { Professor("Michael", "Chen"), Professor("Ann", "Smith"),
      Professor("Zoe", "Elena") }

Directories ==
    UNION { { SubSeq(Elenas, 1, n) \o others, others \o SubSeq(Elenas, 1, n) } :
              n \in 0..MaxElenas, others \in SeqsUpTo(OtherProfs, MaxOtherProfs) }

\* the candidates: single words that match first names, last names, a
\* variation, or nothing, one of them in two spellings; a full name, which
\* is a directory full name in lower case
Candidates ==
    { "Elena", "mike", "Smith", "Zed", "zed", "elena smith" }

CandidateLists == SeqsUpTo(Candidates, MaxCandidates)

\* a float in [0, 1] kept as a fraction; the floats compared by the code are
\* quotients of small integers, which compare as the fractions do
Frac(num, den) == [num |-> num, den |-> den]
FracLess(x, y) == x.num * y.den < y.num * x.den
FracMax(x, y) == IF FracLess(x, y) THEN y ELSE x

\* professor_extraction_service.py:226  threshold: float = 0.7
DefaultThreshold == Frac(7, 10)

\* difflib.SequenceMatcher.find_longest_match without junk: the longest
\* block common to a and b, of those the one that starts earliest in a, and
\* of those the one that starts earliest in b
LongestMatch(a, b) ==
    LET blocks == { blk \in (1..Len(a)) \X (1..Len(b)) \X (1..Len(a)) :
                      /\ blk[1] + blk[3] - 1 <= Len(a)
                      /\ blk[2] + blk[3] - 1 <= Len(b)
                      /\ SubSeq(a, blk[1], blk[1] + blk[3] - 1)
                             = SubSeq(b, blk[2], blk[2] + blk[3] - 1) }
    IN IF blocks = {} THEN << 0, 0, 0 >>
       ELSE CHOOSE blk \in blocks :
                \A other \in blocks :
                    \/ other[3] < blk[3]
                    \/ other[3] = blk[3] /\ blk[1] < other[1]
                    \/ other[3] = blk[3] /\ blk[1] = other[1] /\ blk[2] <= other[2]

\* difflib.SequenceMatcher.get_matching_blocks: the number of characters in
\* the longest block and in the blocks found left and right of it
RECURSIVE MatchingCharacters(_, _)
MatchingCharacters(a, b) ==
    LET blk == LongestMatch(a, b)
    IN IF blk[3] = 0 THEN 0
       ELSE blk[3]
              + MatchingCharacters(SubSeq(a, 1, blk[1] - 1), SubSeq(b, 1, blk[2] - 1))
              + MatchingCharacters(SubSeq(a, blk[1] + blk[3], Len(a)),
                                   SubSeq(b, blk[2] + blk[3], Len(b)))

\* difflib.SequenceMatcher(None, a, b).ratio(): 2.0 * matches / length, 1.0
\* for two empty strings
Ratio(a, b) ==
    IF Len(a) + Len(b) = 0 THEN Frac(1, 1)
    ELSE Frac(2 * MatchingCharacters(a, b), Len(a) + Len(b))

\* professor_extraction_service.py:234-242
MaxSimilarity(extracted_name, prof) ==
    LET full_similarity == Ratio(StrLower(extracted_name), StrLower(FullName(prof)))
        first_name_similarity ==
            Ratio(StrLower(extracted_name), StrLower(prof.firstName))
        last_name_similarity ==
            Ratio(StrLower(extracted_name), StrLower(prof.lastName))
    IN FracMax(FracMax(full_similarity, first_name_similarity), last_name_similarity)

\* professor_extraction_service.py:231-232
NoMatch == [found |-> FALSE, best_match |-> Professor("", ""), best_score |-> Frac(0, 1)]

IsBetter_OrEqual(max_similarity, best_score, threshold) ==
    ~FracLess(max_similarity, best_score) /\ ~FracLess(max_similarity, threshold)

\* professor_extraction_service.py:244
\* max_similarity > best_score and max_similarity >= threshold
IsBetter(max_similarity, best_score, threshold) ==
    FracLess(best_score, max_similarity) /\ ~FracLess(max_similarity, threshold)

\* professor_extraction_service.py:234-246: the loop over the directory
RECURSIVE BestMatch(_, _, _, _)
BestMatch(extracted_name, rmp_professors, threshold, best) ==
    IF rmp_professors = <<>> THEN best
    ELSE LET prof == Head(rmp_professors)
             max_similarity == MaxSimilarity(extracted_name, prof)
         IN BestMatch(extracted_name, Tail(rmp_professors), threshold,
                      IF IsBetter(max_similarity, best.best_score, threshold)
                      THEN [found |-> TRUE, best_match |-> prof,
                            best_score |-> max_similarity]
                      ELSE best)

\* ProfessorExtractionService.fuzzy_match_with_rmp: the dict, from the names
\* with a best match to the matched entry and its score
fuzzy_match_with_rmp(extracted_names, rmp_professors, threshold) ==
    LET best(name) == BestMatch(name, rmp_professors, threshold, NoMatch)
        matched == { name \in Range(extracted_names) : best(name).found }
    IN [name \in matched |->
            [professor |-> best(name).best_match, confidence |-> best(name).best_score,
             match_type |-> "fuzzy"]]

\* the names and the directory given to fuzzy_match_with_rmp: names equal to
\* a first name of two entries, close to a full name, equal to a last name,
\* and far from all
FuzzyNames == { "elena", "Elena Smyth", "Smith", "Zed" }

FuzzyProfs ==
    { Professor("Elena", "Smith"), Professor("Elena", "Jones"),
      Professor("Ann", "Smith") }

Thresholds == { DefaultThreshold, Frac(19, 20) }

\* ------------------------------------------------------------------ state
VARIABLES
    pc,                  \* the coroutine's position (the await it is parked at)
    keyword,             \* query parameter
    include_rmp,         \* query parameter
    session_id,          \* query parameter, or the generated one
    progress_tracker,    \* session ids registered in the global registry
    events,              \* the run's ProgressUpdate.events
    path,                \* "none", "db" (database-only) or "main"
    full_content,        \* the batch fetch: ids requested, their fate, success
    posts_data,          \* full_content_data["data"]
    filtered_posts_data,
    ucr_database_data,
    professor_names,     \* database-only path: extract_all_professor_names
    initial_analysis,
    finalized_professors,
    rmp_data,
    final_analysis,
    ai_analysis,         \* database-only path: the single synthesis result
    result,              \* what the entry point returned or raised
    log,                 \* history: calls started and completed, in order
    synth_log,           \* history: one record per synthesis call
    rmp_calls,           \* history: the name lists given to the rating lookup
    rmp_results,         \* history: what the rating lookup returned
    oracle_calls,        \* history: number of LLM API calls of the run
    cl_pc,               \* classifier call: "off", "called" or "returned"
    cl_post_data,        \* classifier call: the thread
    cl_keyword,          \* classifier call: the topic
    cl_verdict,          \* classifier call: what it returned or raised
    registry,            \* progress bus: session id -> the run whose object is registered
    bus_events,          \* progress bus: each run's ProgressUpdate.events
    runner,              \* progress bus: each run's position and session id
    reader,              \* progress bus: the state of one event_generator
    fn_pc,               \* a function called on its own: "off", "called" or "returned"
    fn_args,             \* the arguments of the call
    fn_result            \* what the call returned

vars == << pc, keyword, include_rmp, session_id, progress_tracker, events, path,
           full_content, posts_data, filtered_posts_data, ucr_database_data, professor_names,
           initial_analysis, finalized_professors, rmp_data, final_analysis,
           ai_analysis, result, log, synth_log, rmp_calls, rmp_results,
           oracle_calls, cl_pc, cl_post_data, cl_keyword, cl_verdict,
           registry, bus_events, runner, reader, fn_pc, fn_args, fn_result >>

\* the variables of one course-analysis run
run_vars == << pc, keyword, include_rmp, session_id, progress_tracker, events, path,
               full_content, posts_data, filtered_posts_data, ucr_database_data, professor_names,
               initial_analysis, finalized_professors, rmp_data, final_analysis,
               ai_analysis, result, log, synth_log, rmp_calls, rmp_results,
               oracle_calls >>

\* the variables of a call of the classifier on its own
cl_vars == << cl_pc, cl_post_data, cl_keyword, cl_verdict >>

\* the variables of the progress bus with its runs and its reader
bus_vars == << registry, bus_events, runner, reader >>

\* the variables of a call of one of the pure functions on its own
fn_vars == << fn_pc, fn_args, fn_result >>

\* what a course-analysis run on its own leaves alone
aux_vars == << cl_vars, bus_vars, fn_vars >>

Pending ==
    [outcome |-> "pending", status |-> 0, success |-> FALSE, error |-> "",
     structured_data |-> None, rmp_enabled |-> FALSE, meta_rmp_enabled |-> FALSE,
     optimization |-> "", cause |-> ""]

\* a returned dict (status 200)
Returned(success, error, structured, top_rmp, meta_rmp, optimization) ==
    [outcome |-> "returned", status |-> 200, success |-> success, error |-> error,
     structured_data |-> structured, rmp_enabled |-> top_rmp,
     meta_rmp_enabled |-> meta_rmp, optimization |-> optimization, cause |-> ""]

\* a raised HTTPException
Raised(status, cause) ==
    [outcome |-> "raised", status |-> status, success |-> FALSE,
     error |-> "Enhanced course analysis failed", structured_data |-> None,
     rmp_enabled |-> FALSE, meta_rmp_enabled |-> FALSE, optimization |-> "",
     cause |-> cause]

\* ------------------------------------------------------- progress bus
\* The bus seen with two requests in flight and one reader.  A run is known
\* to the bus by its ProgressUpdate object: the list of its events and the
\* registry entry made for its session id.
Runs == { "r1", "r2" }

\* main.py:302-303: the caller's session id, or a fresh uuid4 for the run.
\* The first request carries a session id, the second may carry the same one
\* or none.
CallerSession == "s1"
GeneratedFor(r) == "uuid_" \o r
RequestSessions(r) ==
    IF r = "r1" THEN { CallerSession } ELSE { CallerSession, GeneratedFor(r) }
BusSessionIds == UNION { RequestSessions(r) : r \in Runs }

\* the events a run emits between "starting" and its terminal event, in the
\* order of main.py:320, 425, 485, 513
ProgressSteps ==
    << Ev("reddit_search", 10), Ev("initial_analysis", 20),
       Ev("rmp_search", 60), Ev("final_analysis", 80) >>

\* an event on the bus: the dict of main.py:36-41, and for the record the
\* run that emitted it and its place in that run's list
BusEv(ev, r, seq) == [step |-> ev.step, progress |-> ev.progress, run |-> r, seq |-> seq]

EmitTo_SharedList(evs, r, ev) ==
    [q \in Runs |-> Append(evs[q], BusEv(ev, r, Len(evs[q]) + 1))]

\* ProgressUpdate.emit of run r: self.events.append(event)
EmitTo(evs, r, ev) ==
    [evs EXCEPT ![r] = Append(@, BusEv(ev, r, Len(@) + 1))]

\* ProgressUpdate.__init__: progress_tracker[session_id] = self
Register(reg, sid, r) == [reg EXCEPT ![sid] = r]

\* ProgressUpdate.cleanup: del progress_tracker[self.session_id] if present
Unregister(reg, sid) == [reg EXCEPT ![sid] = "none"]

HeartbeatCount_Stuck(timeout_count) == timeout_count

\* main.py:111, 115  timeout_count += 1
HeartbeatCount(timeout_count) == timeout_count + 1

NextEventIndex_NotAdvanced(last_event_index, live_events) == last_event_index

\* main.py:106  last_event_index = len(tracker.events)
NextEventIndex(last_event_index, live_events) == Len(live_events)

\* the reader's final event (main.py:120)
TimeoutEvent == [step |-> "timeout", progress |-> 0, run |-> "none", seq |-> 0]

ReaderIdle ==
    [pc |-> "idle", session_id |-> CallerSession, last_event_index |-> 0,
     timeout_count |-> 0, session_found |-> FALSE, tracker |-> "none",
     pending |-> <<>>, delivered |-> <<>>, quiet_polls |-> 0,
     missed_after_found |-> FALSE]

\* no request and no reader
BusOff ==
    /\ registry = [sid \in BusSessionIds |-> "none"]
    /\ bus_events = [r \in Runs |-> <<>>]
    /\ runner = [r \in Runs |-> [pc |-> "idle", session_id |-> ""]]
    /\ reader = ReaderIdle

\* no batch fetch made
NoFetch == [post_ids |-> <<>>, status |-> <<>>, success |-> TRUE]

\* no classifier call under way
ClassifierOff ==
    /\ cl_pc = "off"
    /\ cl_post_data = PostData("", "", <<>>)
    /\ cl_keyword = ""
    /\ cl_verdict = Verdict(FALSE)

\* no function call under way
FnOff ==
    /\ fn_pc = "off"
    /\ fn_args = <<>>
    /\ fn_result = <<>>

\* no request received yet
RunIdle ==
    /\ pc = "idle"
    /\ keyword = <<>>
    /\ include_rmp = FALSE
    /\ session_id = ""
    /\ progress_tracker = {}
    /\ events = <<>>
    /\ path = "none"
    /\ full_content = NoFetch
    /\ posts_data = <<>>
    /\ filtered_posts_data = <<>>
    /\ ucr_database_data = <<>>
    /\ professor_names = <<>>
    /\ initial_analysis = AnalysisFailure
    /\ finalized_professors = <<>>
    /\ rmp_data = NoRmpData
    /\ final_analysis = AnalysisFailure
    /\ ai_analysis = AnalysisFailure
    /\ result = Pending
    /\ log = <<>>
    /\ synth_log = <<>>
    /\ rmp_calls = <<>>
    /\ rmp_results = <<>>
    /\ oracle_calls = 0

Init == RunIdle /\ ClassifierOff /\ BusOff /\ FnOff

\* main.py:568-574: the handler of the outer try.  tracker and evs are the
\* registry and the event list at the point of the raise.
HandleException(tracker, evs, cause) ==
    /\ events' = emit(evs, "error", 0)
    /\ progress_tracker' = cleanup(tracker, session_id)
    /\ result' = Raised(500, cause)
    /\ pc' = "done"

\* main.py:302-309: the session is registered, "starting" is emitted and the
\* coroutine sleeps
Request ==
    /\ pc = "idle"
    /\ UNCHANGED aux_vars
    /\ UNCHANGED full_content
    /\ \E kw \in Keywords, rmp \in BOOLEAN, sid \in SessionParams :
        /\ keyword' = kw
        /\ include_rmp' = rmp
        /\ session_id' = IF sid = "" THEN GeneratedSession ELSE sid
        /\ progress_tracker' = progress_tracker \cup {session_id'}
    /\ events' = emit(<<>>, "starting", 0)
    /\ pc' = "sleep"
    /\ UNCHANGED << path, posts_data, filtered_posts_data, ucr_database_data,
                    professor_names, initial_analysis, finalized_professors,
                    rmp_data, final_analysis, ai_analysis, result, log,
                    synth_log, rmp_calls, rmp_results, oracle_calls >>

\* main.py:311-322: validation, then the search is started.  The 400 raised
\* for a blank keyword is raised inside the try, so the handler turns it
\* into a 500.
Validate ==
    /\ pc = "sleep"
    /\ UNCHANGED aux_vars
    /\ UNCHANGED full_content
    /\ IF Strip(keyword) = <<>>
       THEN /\ HandleException(cleanup(progress_tracker, session_id), events,
                               "HTTPException 400")
            /\ UNCHANGED log
       ELSE /\ events' = emit(events, "reddit_search", 10)
            /\ log' = Append(log, "search_start")
            /\ pc' = "search"
            /\ UNCHANGED << progress_tracker, result >>
    /\ UNCHANGED << keyword, include_rmp, session_id, path, posts_data,
                    filtered_posts_data, ucr_database_data, professor_names,
                    initial_analysis, finalized_professors, rmp_data,
                    final_analysis, ai_analysis, synth_log, rmp_calls,
                    rmp_results, oracle_calls >>

\* the request parameters and the session id never change after Request
params == << keyword, include_rmp, session_id >>

\* history record of one synthesis call: what the oracle replied (when it was
\* called and replied), what the step did and what it returned
SynthRecord(pass, cd, r, o) ==
    [pass |-> pass, posts |-> cd.posts,
     success |-> r.ret.success, analysis |-> r.ret.analysis,
     oracle_calls |-> r.oracle_calls, cleanup_attempts |-> r.cleanup_attempts,
     fallback |-> r.fallback,
     replied |-> r.oracle_calls = 1 /\ ~o.raised,
     text |-> IF r.oracle_calls = 1 /\ ~o.raised THEN o.text ELSE <<>>]

\* main.py:322 raises (the connector's re-raise, or the await itself)
SearchRaises ==
    /\ pc = "search"
    /\ UNCHANGED aux_vars
    /\ UNCHANGED full_content
    /\ HandleException(progress_tracker, events, "Exception")
    /\ log' = Append(log, "search_raised")
    /\ UNCHANGED << params, path, posts_data, filtered_posts_data,
                    ucr_database_data, professor_names, initial_analysis,
                    finalized_professors, rmp_data, final_analysis, ai_analysis,
                    synth_log, rmp_calls, rmp_results, oracle_calls >>

\* main.py:322-341: the search found no thread; the review records are read,
\* and either "No data found" is returned or the name extraction is started
SearchFindsNothing ==
    /\ pc = "search"
    /\ UNCHANGED aux_vars
    /\ UNCHANGED full_content
    /\ path' = "db"
    /\ \E ucr_data \in UcrTexts :
        /\ ucr_database_data' = ucr_data
        /\ IF NoDatabaseData(ucr_data)
           THEN /\ result' = Returned(FALSE, "No data found", None, FALSE, FALSE, "")
                /\ pc' = "done"
                /\ log' = log \o << "search_done", "sheets_start", "sheets_done" >>
           ELSE /\ pc' = "db_extract"
                /\ log' = log \o << "search_done", "sheets_start", "sheets_done",
                                    "extract_start" >>
                /\ UNCHANGED result
    /\ UNCHANGED << params, progress_tracker, events, posts_data,
                    filtered_posts_data, professor_names, initial_analysis,
                    finalized_professors, rmp_data, final_analysis, ai_analysis,
                    synth_log, rmp_calls, rmp_results, oracle_calls >>

\* main.py:322-324, 397-412: the search found n threads; their full content
\* is fetched by the blocking call at line 409, then the review fetch is
\* handed to a thread and both are gathered
SearchFindsThreads ==
    /\ pc = "search"
    /\ UNCHANGED aux_vars
    /\ path' = "main"
    /\ \E n \in 1..MaxThreads :
        \E st \in [1..n -> ThreadStatus] :
            LET post_ids == [i \in 1..n |-> i]
                full_content_data == get_multiple_posts_for_ai(post_ids, st)
            IN /\ full_content' = [post_ids |-> post_ids, status |-> st,
                                   success |-> full_content_data.success]
               /\ posts_data' = full_content_data.data
    /\ pc' = "gather"
    /\ log' = log \o << "search_done", "fetch_start", "fetch_done", "sheets_start" >>
    /\ UNCHANGED << params, progress_tracker, events, filtered_posts_data,
                    ucr_database_data, professor_names, initial_analysis,
                    finalized_professors, rmp_data, final_analysis, ai_analysis,
                    result, synth_log, rmp_calls, rmp_results, oracle_calls >>

\* main.py:412 raises
GatherRaises ==
    /\ pc = "gather"
    /\ UNCHANGED aux_vars
    /\ UNCHANGED full_content
    /\ HandleException(progress_tracker, events, "Exception")
    /\ log' = Append(log, "gather_raised")
    /\ UNCHANGED << params, path, posts_data, filtered_posts_data,
                    ucr_database_data, professor_names, initial_analysis,
                    finalized_professors, rmp_data, final_analysis, ai_analysis,
                    synth_log, rmp_calls, rmp_results, oracle_calls >>

GatherCompleted_NotAwaited ==
    /\ pc = "gather"
    /\ UNCHANGED aux_vars
    /\ UNCHANGED full_content
    /\ ucr_database_data' = <<>>
    /\ filtered_posts_data' = filter_posts_for_main_topic(posts_data, Strip(keyword))
    /\ events' = emit(events, "initial_analysis", 20)
    /\ log' = log \o << "synth_start" >>
    /\ pc' = "initial_analysis"
    /\ UNCHANGED << params, progress_tracker, path, posts_data, professor_names,
                    initial_analysis, finalized_professors, rmp_data,
                    final_analysis, ai_analysis, result, synth_log, rmp_calls,
                    rmp_results, oracle_calls >>

\* main.py:412-434: both fetches are in; a failed batch fetch ends the run
\* (414-418), else the posts are filtered (an exception of the filter goes
\* to the handler) and the first synthesis call is started
GatherCompleted ==
    /\ pc = "gather"
    /\ UNCHANGED aux_vars
    /\ UNCHANGED full_content
    /\ \E ucr_data \in UcrTexts : ucr_database_data' = ucr_data
    /\ IF ~full_content.success
       THEN /\ result' = Returned(FALSE, "Failed to get full Reddit content",
                                  None, FALSE, FALSE, "")
            /\ log' = Append(log, "sheets_done")
            /\ pc' = "done"
            /\ UNCHANGED << filtered_posts_data, events, progress_tracker >>
       ELSE IF FilterRaises(posts_data, Strip(keyword))
       THEN /\ HandleException(progress_tracker, events, "Exception")
            /\ log' = log \o << "sheets_done", "filter_raised" >>
            /\ UNCHANGED filtered_posts_data
       ELSE /\ filtered_posts_data' =
                   filter_posts_for_main_topic(posts_data, Strip(keyword))
            /\ events' = emit(events, "initial_analysis", 20)
            /\ log' = log \o << "sheets_done", "synth_start" >>
            /\ pc' = "initial_analysis"
            /\ UNCHANGED << result, progress_tracker >>
    /\ UNCHANGED << params, path, posts_data, professor_names,
                    initial_analysis, finalized_professors, rmp_data,
                    final_analysis, ai_analysis, synth_log, rmp_calls,
                    rmp_results, oracle_calls >>

\* main.py:534-566: "complete" is emitted, the result is built, the session
\* is removed from the registry and the result returned
CompleteRun(evs, fa, rmp) ==
    /\ events' = emit(evs, "complete", 100)
    /\ result' = Returned(TRUE, "",
                          IF fa.success THEN fa.analysis ELSE None,
                          include_rmp, include_rmp,
                          IF rmp.professors # <<>>
                          THEN "finalized_professors_then_rmp"
                          ELSE "reddit_and_sheets_only")
    /\ progress_tracker' = cleanup(progress_tracker, session_id)
    /\ pc' = "done"

\* main.py:510-527, then 529-566 when no second call is made
FinalStep(evs, ia, rmp, lg) ==
    IF HasRmpProfessors(rmp)
    THEN /\ events' = emit(evs, "final_analysis", 80)
         /\ log' = Append(lg, "synth_start")
         /\ pc' = "final_analysis"
         /\ UNCHANGED << final_analysis, result, progress_tracker >>
    ELSE /\ final_analysis' = ia
         /\ log' = lg
         /\ CompleteRun(emit(evs, "final_analysis", 80), ia, rmp)

\* main.py:434-493 (and 510-566 when no lookup is made): the first synthesis
\* call returned
InitialAnalysisCompleted ==
    /\ pc = "initial_analysis"
    /\ UNCHANGED aux_vars
    /\ UNCHANGED full_content
    /\ \E o \in OracleOutcomes :
        LET initial_course_data ==
                CourseData(filtered_posts_data, ucr_database_data, NoRmpData)
            r == analyze_course_discussions_structured(initial_course_data, o)
            fin == FinalizedProfessors(r.ret.analysis)
            lg == log \o << "synth_done", "names_start", "names_done" >>
        IN /\ initial_analysis' = r.ret
           /\ synth_log' = Append(synth_log, SynthRecord("initial", initial_course_data, r, o))
           /\ oracle_calls' = oracle_calls + r.oracle_calls
           /\ IF ~r.ret.success
              THEN /\ result' = Returned(TRUE, "", r.ret.analysis, include_rmp,
                                         FALSE, "initial_analysis_failed")
                   /\ pc' = "done"
                   /\ log' = Append(log, "synth_done")
                   /\ UNCHANGED << finalized_professors, rmp_data, rmp_calls,
                                   events, progress_tracker, final_analysis >>
              ELSE /\ finalized_professors' = fin
                   /\ IF include_rmp /\ fin # <<>>
                      THEN /\ events' = emit(events, "rmp_search", 60)
                           /\ rmp_calls' = Append(rmp_calls, fin)
                           /\ log' = Append(lg, "lookup_start")
                           /\ pc' = "rmp_lookup"
                           /\ UNCHANGED << rmp_data, final_analysis, result,
                                           progress_tracker >>
                      ELSE /\ rmp_data' = NoRmpData
                           /\ FinalStep(events, r.ret, NoRmpData, lg)
                           /\ UNCHANGED rmp_calls
    /\ UNCHANGED << params, path, posts_data, filtered_posts_data,
                    ucr_database_data, professor_names, ai_analysis, rmp_results >>

\* main.py:489-527 (and 529-566 when no second call is made): the targeted
\* lookup returned
LookupCompleted ==
    /\ pc = "rmp_lookup"
    /\ UNCHANGED aux_vars
    /\ UNCHANGED full_content
    /\ \E res \in RmpResults(finalized_professors) :
        LET out == TargetedLookupOutcome(res)
            lg == Append(log, "lookup_done")
        IN /\ rmp_results' = Append(rmp_results, res)
           /\ IF out.fatal
              THEN /\ HandleException(progress_tracker, events, "Exception")
                   /\ log' = lg
                   /\ UNCHANGED << rmp_data, final_analysis >>
              ELSE /\ rmp_data' = out.rmp_data
                   /\ FinalStep(events, initial_analysis, out.rmp_data, lg)
    /\ UNCHANGED << params, path, posts_data, filtered_posts_data,
                    ucr_database_data, professor_names, initial_analysis,
                    finalized_professors, ai_analysis, synth_log, rmp_calls,
                    oracle_calls >>

\* main.py:522-566: the second synthesis call returned
FinalAnalysisCompleted ==
    /\ pc = "final_analysis"
    /\ UNCHANGED aux_vars
    /\ UNCHANGED full_content
    /\ \E o \in OracleOutcomes :
        LET final_course_data ==
                CourseData(filtered_posts_data, ucr_database_data, rmp_data)
            r == analyze_course_discussions_structured(final_course_data, o)
        IN /\ final_analysis' = r.ret
           /\ synth_log' = Append(synth_log, SynthRecord("final", final_course_data, r, o))
           /\ oracle_calls' = oracle_calls + r.oracle_calls
           /\ CompleteRun(events, r.ret, rmp_data)
    /\ log' = Append(log, "synth_done")
    /\ UNCHANGED << params, path, posts_data, filtered_posts_data,
                    ucr_database_data, professor_names, initial_analysis,
                    finalized_professors, rmp_data, ai_analysis, rmp_calls,
                    rmp_results >>

\* main.py:341-370: database-only path, the name extraction returned
ExtractCompleted ==
    /\ pc = "db_extract"
    /\ UNCHANGED aux_vars
    /\ UNCHANGED full_content
    /\ \E o \in ExtractionOutcomes :
        LET r == extract_all_professor_names(
                     CourseData(<<>>, ucr_database_data, NoRmpData), o)
        IN /\ professor_names' = r.names
           /\ oracle_calls' = oracle_calls + r.oracle_calls
           /\ IF include_rmp /\ r.names # <<>>
              THEN /\ rmp_calls' = Append(rmp_calls, r.names)
                   /\ log' = log \o << "extract_done", "lookup_start" >>
                   /\ pc' = "db_lookup"
              ELSE /\ log' = log \o << "extract_done", "synth_start" >>
                   /\ pc' = "db_synth"
                   /\ UNCHANGED rmp_calls
    /\ rmp_data' = NoRmpData
    /\ UNCHANGED << params, progress_tracker, events, path, posts_data,
                    filtered_posts_data, ucr_database_data, initial_analysis,
                    finalized_professors, final_analysis, ai_analysis, result,
                    synth_log, rmp_results >>

\* main.py:348-370: database-only path, the lookup returned
DatabaseLookupCompleted ==
    /\ pc = "db_lookup"
    /\ UNCHANGED aux_vars
    /\ UNCHANGED full_content
    /\ \E res \in RmpResults(professor_names) :
        /\ rmp_results' = Append(rmp_results, res)
        /\ rmp_data' = DatabaseLookupOutcome(res).rmp_data
    /\ log' = log \o << "lookup_done", "synth_start" >>
    /\ pc' = "db_synth"
    /\ UNCHANGED << params, progress_tracker, events, path, posts_data,
                    filtered_posts_data, ucr_database_data, professor_names,
                    initial_analysis, finalized_professors, final_analysis,
                    ai_analysis, result, synth_log, rmp_calls, oracle_calls >>

\* main.py:370-395: database-only path, the synthesis call returned and the
\* result is returned (the session stays in the registry)
DatabaseSynthesisCompleted ==
    /\ pc = "db_synth"
    /\ UNCHANGED aux_vars
    /\ UNCHANGED full_content
    /\ \E o \in OracleOutcomes :
        LET course_data == CourseData(<<>>, ucr_database_data, rmp_data)
            r == analyze_course_discussions_structured(course_data, o)
        IN /\ ai_analysis' = r.ret
           /\ synth_log' = Append(synth_log, SynthRecord("database", course_data, r, o))
           /\ oracle_calls' = oracle_calls + r.oracle_calls
           /\ result' = Returned(TRUE, "",
                                 IF r.ret.success THEN r.ret.analysis ELSE None,
                                 include_rmp, include_rmp,
                                 "ai_comprehensive_database_only")
    /\ log' = Append(log, "synth_done")
    /\ pc' = "done"
    /\ UNCHANGED << params, progress_tracker, events, path, posts_data,
                    filtered_posts_data, ucr_database_data, professor_names,
                    initial_analysis, finalized_professors, rmp_data,
                    final_analysis, rmp_calls, rmp_results >>

Next ==
    \/ Request
    \/ Validate
    \/ SearchRaises
    \/ SearchFindsNothing
    \/ SearchFindsThreads
    \/ GatherRaises
    \/ GatherCompleted
    \/ InitialAnalysisCompleted
    \/ LookupCompleted
    \/ FinalAnalysisCompleted
    \/ ExtractCompleted
    \/ DatabaseLookupCompleted
    \/ DatabaseSynthesisCompleted

Spec == Init /\ [][Next]_vars

\* ------------------------------------------- the classifier on its own
\* a thread and a topic are handed to the classifier
ClassifierInit ==
    /\ RunIdle
    /\ BusOff
    /\ FnOff
    /\ cl_pc = "called"
    /\ cl_post_data \in Threads
    /\ cl_keyword \in Topics
    /\ cl_verdict = Verdict(FALSE)

\* RedditService._is_main_topic_about_course returns or raises
Classify ==
    /\ cl_pc = "called"
    /\ cl_verdict' = is_main_topic_about_course(cl_post_data, cl_keyword)
    /\ cl_pc' = "returned"
    /\ UNCHANGED << cl_post_data, cl_keyword, run_vars, bus_vars, fn_vars >>

ClassifierNext == Classify

ClassifierSpec == ClassifierInit /\ [][ClassifierNext]_vars

\* ---------------------------------------- the progress bus on its own
\* main.py:302-309: run r takes the caller's session id or a fresh one,
\* registers its object, emits "starting" and sleeps
RunStart(r) ==
    /\ runner[r].pc = "idle"
    /\ \E sid \in RequestSessions(r) :
        /\ runner' = [runner EXCEPT ![r] = [pc |-> "running", session_id |-> sid]]
        /\ registry' = Register(registry, sid, r)
    /\ bus_events' = EmitTo(bus_events, r, Ev("starting", 0))
    /\ UNCHANGED << reader, run_vars, cl_vars, fn_vars >>

\* main.py:320, 425, 485, 513: run r emits its next progress event and
\* awaits the call the event announces
RunEmit(r) ==
    /\ runner[r].pc = "running"
    /\ Len(bus_events[r]) <= MaxProgressEvents
    /\ Len(bus_events[r]) <= Len(ProgressSteps)
    /\ bus_events' = EmitTo(bus_events, r, ProgressSteps[Len(bus_events[r])])
    /\ UNCHANGED << registry, runner, reader, run_vars, cl_vars, fn_vars >>

\* main.py:535-566: run r emits "complete", builds its result and removes
\* its session id from the registry, without a suspension point in between
RunComplete(r) ==
    /\ runner[r].pc = "running"
    /\ Len(bus_events[r]) >= 2
    /\ bus_events' = EmitTo(bus_events, r, Ev("complete", 100))
    /\ registry' = Unregister(registry, runner[r].session_id)
    /\ runner' = [runner EXCEPT ![r].pc = "done"]
    /\ UNCHANGED << reader, run_vars, cl_vars, fn_vars >>

\* main.py:568-574: run r emits "error", removes its session id from the
\* registry and raises
RunFail(r) ==
    /\ runner[r].pc = "running"
    /\ bus_events' = EmitTo(bus_events, r, Ev("error", 0))
    /\ registry' = Unregister(registry, runner[r].session_id)
    /\ runner' = [runner EXCEPT ![r].pc = "done"]
    /\ UNCHANGED << reader, run_vars, cl_vars, fn_vars >>

\* main.py:327-331, 372-395, 438-461: run r returns without a terminal event
\* and without cleanup
RunReturn(r) ==
    /\ runner[r].pc = "running"
    /\ Len(bus_events[r]) >= 2
    /\ runner' = [runner EXCEPT ![r].pc = "done"]
    /\ UNCHANGED << registry, bus_events, reader, run_vars, cl_vars, fn_vars >>

\* main.py:81-91: a client asks for the stream of a session id and gets the
\* "connected" message
ReaderConnect ==
    /\ reader.pc = "idle"
    /\ \E sid \in BusSessionIds :
        reader' = [reader EXCEPT !.pc = "polling", !.session_id = sid]
    /\ UNCHANGED << registry, bus_events, runner, run_vars, cl_vars, fn_vars >>

\* main.py:93-117, from the loop test to the next yield: past the ceiling the
\* "timeout" event ends the stream; with new events in the session's list
\* the slice of them is taken and its first event sent; otherwise a
\* heartbeat is sent and counted
ReaderPoll ==
    /\ reader.pc = "polling"
    /\ IF ~(reader.timeout_count < max_timeout)
       THEN reader' = [reader EXCEPT !.pc = "ended",
                                     !.delivered = Append(@, TimeoutEvent)]
       ELSE IF registry[reader.session_id] # "none"
       THEN LET tracker == registry[reader.session_id]
                live == bus_events[tracker]
            IN IF Len(live) > reader.last_event_index
               THEN reader' =
                        [reader EXCEPT
                            !.pc = "sending",
                            !.session_found = TRUE,
                            !.tracker = tracker,
                            !.delivered = Append(@, live[reader.last_event_index + 1]),
                            !.pending = SubSeq(live, reader.last_event_index + 2,
                                               Len(live)),
                            !.quiet_polls = 0]
               ELSE reader' =
                        [reader EXCEPT
                            !.session_found = TRUE,
                            !.timeout_count = HeartbeatCount(@),
                            !.quiet_polls = @ + 1]
       ELSE reader' =
                [reader EXCEPT
                    !.timeout_count = HeartbeatCount(@),
                    !.quiet_polls = @ + 1,
                    !.missed_after_found = @ \/ reader.session_found]
    /\ UNCHANGED << registry, bus_events, runner, run_vars, cl_vars, fn_vars >>

\* main.py:103-107, 117: the generator is resumed after an event was sent; it
\* sends the next event of the slice, or leaves the loop, takes the length
\* of the list as it is now, resets the count and sleeps
ReaderSend ==
    /\ reader.pc = "sending"
    /\ IF reader.pending # <<>>
       THEN reader' = [reader EXCEPT !.delivered = Append(@, Head(reader.pending)),
                                     !.pending = Tail(@)]
       ELSE reader' =
                [reader EXCEPT
                    !.pc = "polling",
                    !.last_event_index =
                        NextEventIndex(@, bus_events[reader.tracker]),
                    !.timeout_count = 0]
    /\ UNCHANGED << registry, bus_events, runner, run_vars, cl_vars, fn_vars >>

BusNext ==
    \/ \E r \in Runs : RunStart(r)
    \/ \E r \in Runs : RunEmit(r)
    \/ \E r \in Runs : RunComplete(r)
    \/ \E r \in Runs : RunFail(r)
    \/ \E r \in Runs : RunReturn(r)
    \/ ReaderConnect
    \/ ReaderPoll
    \/ ReaderSend

BusSpec == Init /\ [][BusNext]_vars

\* one request and one reader
OneRunNext ==
    \/ RunStart("r1")
    \/ RunEmit("r1")
    \/ RunComplete("r1")
    \/ RunFail("r1")
    \/ RunReturn("r1")
    \/ ReaderConnect
    \/ ReaderPoll
    \/ ReaderSend

\* the event loop resumes a reader whose client keeps consuming the stream;
\* nothing is assumed of the run
ReaderFairSpec ==
    Init /\ [][OneRunNext]_vars /\ WF_vars(ReaderPoll) /\ WF_vars(ReaderSend)

\* ------------------------------------------ the review parser on its own
\* the export is requested
SheetsInit ==
    /\ RunIdle
    /\ ClassifierOff
    /\ BusOff
    /\ fn_pc = "called"
    /\ fn_args \in CsvRows
    /\ fn_result = <<>>

\* sheets_service.py:37-101: the export arrived and is parsed
FetchClassData ==
    /\ fn_pc = "called"
    /\ fn_result' = fetch_ucr_class_data(fn_args)
    /\ fn_pc' = "returned"
    /\ UNCHANGED << fn_args, run_vars, cl_vars, bus_vars >>

\* sheets_service.py:37-38, 103-105: the request raised, no review is returned
FetchClassDataFails ==
    /\ fn_pc = "called"
    /\ fn_result' = <<>>
    /\ fn_pc' = "failed"
    /\ UNCHANGED << fn_args, run_vars, cl_vars, bus_vars >>

SheetsSpec == SheetsInit /\ [][FetchClassData \/ FetchClassDataFails]_vars

\* ------------------------------------------ the name cleaner on its own
\* a set of raw names is handed to the cleaner
CleanInit ==
    /\ RunIdle
    /\ ClassifierOff
    /\ BusOff
    /\ fn_pc = "called"
    /\ fn_args \in RawNameSets
    /\ fn_result = <<>>

\* ProfessorExtractionService.clean_and_normalize_names returns; the set is
\* iterated in one of its orders
CleanAndNormalize ==
    /\ fn_pc = "called"
    /\ \E raw_names \in Orderings(fn_args) :
           fn_result' = clean_and_normalize_names(raw_names)
    /\ fn_pc' = "returned"
    /\ UNCHANGED << fn_args, run_vars, cl_vars, bus_vars >>

CleanSpec == CleanInit /\ [][CleanAndNormalize]_vars

\* ---------------------------------------- the name expander on its own
\* a list of names and a directory are handed to the expander
ExpandInit ==
    /\ RunIdle
    /\ ClassifierOff
    /\ BusOff
    /\ fn_pc = "called"
    /\ fn_args \in { [names |-> names, rmp_professors |-> dir] :
                       names \in CandidateLists, dir \in Directories }
    /\ fn_result = <<>>

\* ProfessorExtractionService.expand_partial_names returns
ExpandPartialNames ==
    /\ fn_pc = "called"
    /\ fn_result' = expand_partial_names(fn_args.names, fn_args.rmp_professors)
    /\ fn_pc' = "returned"
    /\ UNCHANGED << fn_args, run_vars, cl_vars, bus_vars >>

ExpandSpec == ExpandInit /\ [][ExpandPartialNames]_vars

\* ----------------------------------------- the fuzzy matcher on its own
\* names, a directory and a threshold are handed to the matcher
FuzzyInit ==
    /\ RunIdle
    /\ ClassifierOff
    /\ BusOff
    /\ fn_pc = "called"
    /\ fn_args \in { [extracted_names |-> names, rmp_professors |-> dir,
                      threshold |-> t] :
                       names \in SeqsUpTo(FuzzyNames, MaxFuzzyNames),
                       dir \in SeqsUpTo(FuzzyProfs, MaxFuzzyProfs),
                       t \in Thresholds }
    /\ fn_result = <<>>

\* ProfessorExtractionService.fuzzy_match_with_rmp returns
FuzzyMatchWithRmp ==
    /\ fn_pc = "called"
    /\ fn_result' = fuzzy_match_with_rmp(fn_args.extracted_names,
                                         fn_args.rmp_professors, fn_args.threshold)
    /\ fn_pc' = "returned"
    /\ UNCHANGED << fn_args, run_vars, cl_vars, bus_vars >>

FuzzySpec == FuzzyInit /\ [][FuzzyMatchWithRmp]_vars

\* ================================================================ claims
Done == pc = "done"

\* the names carried by the "professors" entries of a synthesis output
SynthesisNames(analysis) ==
    IF analysis.kind # "obj" THEN {}
    ELSE { Strip(analysis.professors[i].name) :
             i \in { j \in 1..Len(analysis.professors) : analysis.professors[j].is_dict } }

\* the names of the run's first synthesis output, none before it exists
FirstPassNames ==
    IF synth_log = <<>> THEN {} ELSE SynthesisNames(synth_log[1].analysis)

\* the k-th synthesis call got a reply that is no JSON document, with or
\* without code fences
Unparseable(k) == synth_log[k].replied /\ Garbage \in Range(synth_log[k].text)

\* the targeted lookup returned at least one matched record
Matched == rmp_results # <<>> /\ rmp_results[1].professors # <<>>

\* the targeted lookup raised or reported failure
LookupFailed == rmp_results # <<>> /\ rmp_results[1].kind \in {"no_school", "failed"}

SecondCallMade == \E k \in 1..Len(synth_log) : synth_log[k].pass = "final"

Before(a, i) == \E j \in 1..(i - 1) : log[j] = a

C10_BlankKeywordRejected ==
    (Done /\ Strip(keyword) = <<>>) =>
        /\ result.outcome = "raised"
        /\ result.status = 400
        /\ log = <<>>
        /\ oracle_calls = 0

Classified == cl_pc = "returned"

\* the topic token: the topic in lower case without spaces and hyphens
TopicToken == CourseCode(cl_keyword)

ThreadTitle == StrLower(cl_post_data.post.title)
ThreadBody == StrLower(cl_post_data.post.selftext)
ThreadReplies == cl_post_data.comments

\* the whole text of the thread: title, body and all replies
ThreadText ==
    StrJoin(<< ThreadTitle, ThreadBody >>
                \o [i \in 1..Len(ThreadReplies) |-> StrLower(ThreadReplies[i].body)])

TokenInTitle == StrContains(TopicToken, ThreadTitle)

TitleHasFocusKeyword ==
    \E k \in title_focused_keywords : StrContains(k, ThreadTitle)

\* title or body contains an enumeration phrase
ListStyle ==
    \E phrase \in list_indicators :
        StrContains(phrase, ThreadTitle) \/ StrContains(phrase, ThreadBody)

\* the token's occurrences in the whole text are under 0.5% of its words
DensityUnderHalfPercent ==
    CountFrom(TopicToken, ThreadText, 1) * 200 < WordCount(ThreadText)

\* C12: when the topic token is in the title and the title has a focus
\* keyword, the classifier returns true, whatever the body and the replies.
C12_TitleFocusAccepts ==
    (Classified /\ TokenInTitle /\ TitleHasFocusKeyword) =>
        cl_verdict = Verdict(TRUE)

\* C12 as amended: the same for every thread that is not list-style (neither
\* title nor body contains an enumeration phrase).
C12_TitleFocusAcceptsUnlessListStyle ==
    (Classified /\ TokenInTitle /\ TitleHasFocusKeyword /\ ~ListStyle) =>
        cl_verdict = Verdict(TRUE)

\* a title-focused thread without body and replies, which no later rule
\* would accept, is accepted
C12_Witness ==
    /\ Classified
    /\ TopicToken = "cs1"
    /\ cl_post_data = PostData("CS1 professor review", "", <<>>)
    /\ cl_verdict = Verdict(TRUE)

\* C13: for a list-style thread in which the occurrences of the (non-empty)
\* topic token are under 0.5% of the words of title, body and replies, the
\* classifier returns false.
C13_DilutedListRejected ==
    (Classified /\ ListStyle /\ TopicToken # "" /\ DensityUnderHalfPercent) =>
        cl_verdict = Verdict(FALSE)

\* C14: the classifier never raises; it returns false when the topic token is
\* empty; for a thread without body and replies it returns true only when
\* the title-focus rule accepts.
C14_GracefulEdgeCases ==
    Classified =>
        /\ ~cl_verdict.raised
        /\ TopicToken = "" => ~cl_verdict.value
        /\ (ThreadBody = "" /\ ThreadReplies = <<>> /\ cl_verdict.value) =>
              (TokenInTitle /\ TitleHasFocusKeyword)

FetchedInOrder ==
    Pick([i \in 1..Len(full_content.post_ids) |->
              [id |-> full_content.post_ids[i],
               about |-> full_content.status[full_content.post_ids[i]] = "about",
               raises |-> full_content.status[full_content.post_ids[i]] = "raises"]],
         { i \in 1..Len(full_content.post_ids) :
             full_content.status[full_content.post_ids[i]] # "failed" })

\* C20: the batch fetch reports success whatever thread fetches failed, and
\* returns exactly the threads fetched with success, in the order requested;
\* the run is not ended by it.
C20_BatchFetchSurvivesFailures ==
    path = "main" =>
        /\ full_content.success
        /\ posts_data = FetchedInOrder
        /\ result.error # "Failed to get full Reddit content"

C20_Witness ==
    /\ pc = "initial_analysis"
    /\ Len(full_content.post_ids) = 2
    /\ full_content.status[1] = "failed"
    /\ full_content.status[2] = "about"
    /\ posts_data = << [id |-> 2, about |-> TRUE, raises |-> FALSE] >>

\* ------------------------------------------ claims about the progress bus
Started(r) == runner[r].pc # "idle"

\* the requests in flight carry different session ids
DistinctSessions ==
    \A r, q \in Runs :
        (r # q /\ Started(r) /\ Started(q)) =>
            runner[r].session_id # runner[q].session_id

\* the events of a run's log that the reader has sent to its client
DeliveredEvents == SelectSeq(reader.delivered, LAMBDA e : e.run # "none")

IsPrefix(a, b) == Len(a) <= Len(b) /\ SubSeq(b, 1, Len(a)) = a

TerminalSteps == { "complete", "error" }

\* C15: with distinct session ids, the log registered for a session id is
\* the log of the run of that session and holds only events that run
\* emitted, and every event sent to the reader was emitted by the run of the
\* session the reader asked for.
C15_SessionsIsolated ==
    DistinctSessions =>
        /\ \A sid \in BusSessionIds :
              registry[sid] # "none" =>
                  /\ runner[registry[sid]].session_id = sid
                  /\ \A i \in 1..Len(bus_events[registry[sid]]) :
                        bus_events[registry[sid]][i].run = registry[sid]
        /\ \A i \in 1..Len(DeliveredEvents) :
              runner[DeliveredEvents[i].run].session_id = reader.session_id

C15_Witness ==
    /\ runner["r1"].pc = "running"
    /\ runner["r2"].pc = "running"
    /\ DistinctSessions
    /\ bus_events["r1"] # <<>>
    /\ reader.session_id = GeneratedFor("r2")
    /\ Len(DeliveredEvents) >= 2

\* C16: once the reader has found its session missing after having seen it
\* (the run has ended and removed it), or has sent a terminal event, its
\* stream has ended.
C16_StreamEndsWithSession ==
    /\ reader.missed_after_found => reader.pc = "ended"
    /\ (\E i \in 1..Len(DeliveredEvents) : DeliveredEvents[i].step \in TerminalSteps)
           => reader.pc = "ended"

\* C17: a connected reader always ends; when it has ended, its last 120 polls
\* in a row sent no event, "timeout" is the last thing it sent and the only
\* one; the count of empty polls restarts whenever an event is sent; the step
\* that ends the stream changes neither the run nor its log.
C17_ReaderGivesUpAtCeiling ==
    /\ (reader.pc = "polling") ~> (reader.pc = "ended")
    /\ [](reader.pc = "ended" =>
             /\ reader.timeout_count = max_timeout
             /\ reader.quiet_polls = max_timeout
             /\ reader.delivered[Len(reader.delivered)] = TimeoutEvent
             /\ Len(DeliveredEvents) = Len(reader.delivered) - 1)
    /\ [](reader.pc = "polling" => reader.timeout_count = reader.quiet_polls)
    /\ [][(reader.pc # "ended" /\ reader'.pc = "ended") =>
              UNCHANGED << registry, bus_events, runner >>]_vars

\* a reader that sent events gave up while its run was still going
C17_Witness ==
    /\ reader.pc = "ended"
    /\ Len(DeliveredEvents) >= 2
    /\ runner["r1"].pc = "running"
    /\ registry[reader.session_id] = "r1"

\* C18: every step leaves each run's list of events a prefix of what it
\* becomes; the events sent to the reader are events of the logs, and those
\* of one log are sent in the order of the log, none twice.
C18_AppendOnlyInOrderOnce ==
    /\ [][\A r \in Runs : IsPrefix(bus_events[r], bus_events'[r])]_vars
    /\ [](/\ \A i \in 1..Len(DeliveredEvents) :
                LET e == DeliveredEvents[i]
                IN /\ e.seq <= Len(bus_events[e.run])
                   /\ bus_events[e.run][e.seq] = e
          /\ \A i, j \in 1..Len(DeliveredEvents) :
                (i < j /\ DeliveredEvents[i].run = DeliveredEvents[j].run) =>
                    DeliveredEvents[i].seq < DeliveredEvents[j].seq)

\* the reader has sent the first two events of a log of three
C18_Witness ==
    /\ reader.pc = "polling"
    /\ Len(bus_events["r1"]) = 3
    /\ DeliveredEvents = << bus_events["r1"][1], bus_events["r1"][2] >>

\* the last event of run r's list is its "complete" event
CompletedRun(r) ==
    /\ runner[r].pc = "done"
    /\ bus_events[r] # <<>>
    /\ bus_events[r][Len(bus_events[r])].step = "complete"

\* C27: a reader that was polling the session of run r while r ran to its
\* successful end is delivered r's "complete" event: once such a reader's
\* stream has ended, the event is among those it was sent.
C27_CompleteEventDelivered ==
    \A r \in Runs :
        (reader.pc = "ended" /\ reader.tracker = r /\ CompletedRun(r))
            => \E i \in 1..Len(reader.delivered) :
                   /\ reader.delivered[i].run = r
                   /\ reader.delivered[i].step = "complete"

\* C28: a registry entry made by a run is changed by that run's own cleanup
\* only: while the run is in flight no other run's start replaces it, and no
\* other run's cleanup removes it, whatever session ids the requests carry.
C28_RunsTouchOnlyTheirOwnLog ==
    [][\A sid \in BusSessionIds :
          LET owner == registry[sid]
          IN (owner # "none" /\ registry'[sid] # owner)
                 => /\ registry'[sid] = "none"
                        => (runner[owner].pc = "running" /\ runner'[owner].pc = "done")
                    /\ registry'[sid] # "none"
                        => runner[owner].pc # "running"]_vars

\* the place of a step label in the order of main.py:306, 320, 425, 485,
\* 513/525 and 535/572
StepRank(step) ==
    CASE step = "starting" -> 1
      [] step = "reddit_search" -> 2
      [] step = "initial_analysis" -> 3
      [] step = "rmp_search" -> 4
      [] step = "final_analysis" -> 5
      [] step \in { "complete", "error" } -> 6
      [] OTHER -> 0

\* the labels of the run's log are known ones, in the fixed order, each at
\* most once
LabelsInOrder ==
    /\ \A i \in 1..Len(events) : StepRank(events[i].step) > 0
    /\ \A i, j \in 1..Len(events) :
           i < j => StepRank(events[i].step) < StepRank(events[j].step)

\* C29 as stated: the labels are in the fixed order, each at most once, and
\* the percentage never decreases from an event to a later one, the failure
\* event included.
C29_OrderedAndPercentNeverDecreases ==
    /\ LabelsInOrder
    /\ \A i, j \in 1..Len(events) :
           i < j => events[i].progress <= events[j].progress

\* C29 (amended): the labels are in the fixed order, each at most once; the
\* percentage never decreases among the events other than the failure event,
\* and the failure event carries 0.
C29_OrderedAndPercentNeverDecreasesButOnFailure ==
    /\ LabelsInOrder
    /\ \A i, j \in 1..Len(events) :
           (i < j /\ events[j].step # "error")
               => events[i].progress <= events[j].progress
    /\ \A i \in 1..Len(events) :
           events[i].step = "error" => events[i].progress = 0

\* a run that failed at the search or at the gather, after "reddit_search"
\* at 10 percent
C29_Witness ==
    /\ Done
    /\ events = << Ev("starting", 0), Ev("reddit_search", 10), Ev("error", 0) >>

\* the focus keywords as section 4.1 of the specification lists them
SpecFocusKeywords ==
    { "review", "experience", "professor", "difficulty", "tips", "advice",
      "grade", "exam", "how is", "taking", "recommend", "easy", "hard",
      "worth it", "skip", "avoid" }

\* occurrences of the topic token in a text; an empty token occurs nowhere
TokenOccurrences(text) ==
    IF TopicToken = "" THEN 0 ELSE CountFrom(TopicToken, text, 1)

TokenIn(text) == TopicToken # "" /\ StrContains(TopicToken, text)

\* the ordered procedure of section 4.1, steps 2 to 7, on the thread and the
\* topic of the call
SpecProcedure ==
    IF /\ ListStyle
       /\ WordCount(ThreadText) > 0
       /\ TokenOccurrences(ThreadText) * 1000 < 5 * WordCount(ThreadText)
    THEN FALSE
    ELSE IF /\ TokenIn(ThreadTitle)
            /\ \E k \in SpecFocusKeywords : StrContains(k, ThreadTitle)
    THEN TRUE
    ELSE IF /\ Len(ThreadBody) > 50
            /\ WordCount(ThreadBody) > 0
            /\ TokenOccurrences(ThreadBody) * 100 >= WordCount(ThreadBody)
    THEN TRUE
    ELSE IF Len(SelectSeq(ThreadReplies,
                          LAMBDA c : Len(c.body) > 30 /\ TokenIn(StrLower(c.body)))) >= 2
    THEN TRUE
    ELSE TokenIn(ThreadTitle) /\ (Len(ThreadBody) > 20 \/ Len(ThreadReplies) > 2)

\* C25: for every thread and topic the classifier returns exactly what the
\* ordered procedure of the specification gives, with the specification's
\* focus keywords.
C25_ClassifierIsSpecProcedure ==
    Classified => cl_verdict = Verdict(SpecProcedure)

\* C30: for a thread that is not list-style, when the topic as the caller
\* wrote it (letter case aside) is in the title together with a focus
\* keyword, the classifier returns true.
C30_VerbatimTopicInTitleAccepted ==
    (/\ Classified
     /\ ~ListStyle
     /\ cl_keyword # ""
     /\ StrContains(StrLower(cl_keyword), ThreadTitle)
     /\ TitleHasFocusKeyword) => cl_verdict = Verdict(TRUE)

\* ------------------------------------- claims about the filtered threads
\* a is b with some elements left out, the others in the order of b
IsSubsequence(a, b) ==
    \E f \in [1..Len(a) -> 1..Len(b)] :
        /\ \A k \in 1..Len(a) : a[k] = b[f[k]]
        /\ \A k, l \in 1..Len(a) : k < l => f[k] < f[l]

\* the records of the two synthesis passes of the thread path
SynthesisPasses ==
    { i \in 1..Len(synth_log) : synth_log[i].pass \in { "initial", "final" } }

HeaderRowsUpTo(n) ==
    { k \in 2..n : Len(fn_args[k]) > 0 /\ StrStrip(fn_args[k][1]) # "" }

LastHeaderRow(n) == CHOOSE k \in HeaderRowsUpTo(n) : \A l \in HeaderRowsUpTo(n) : l <= k

\* the second column of a row, "" when the row has none
AverageColumn(row) == IF Len(row) > 1 THEN StrStrip(row[2]) ELSE ""

\* C21: every review has the subject code and the aggregate difficulty of
\* the last row, at or before the review's own, whose first column names a
\* class, whatever the rows look like; a row with a comment that no such row
\* precedes gives no review.
C21_ReviewsBelongToLastHeader ==
    fn_pc = "returned" =>
        \A i \in 1..Len(fn_result) :
            LET review == fn_result[i]
            IN /\ HeaderRowsUpTo(review.row_num) # {}
               /\ LET header == fn_args[LastHeaderRow(review.row_num)]
                  IN /\ review.class_code = StrUpper(StrStrip(header[1]))
                     /\ review.average_difficulty
                            = AverageDifficulty(AverageColumn(header))

\* ------------------------------------- claims about the instructor names
\* C22: every name the cleaner returns has 3 to 50 characters, no digit and
\* no non-name word, no two returned names are equal ignoring case, and for
\* the set {Said123, Ab, Professor Chrobak, The Class} the cleaner returns
\* exactly [Professor Chrobak].
C22_CleanNamesWellFormed ==
    (fn_pc = "returned") =>
        /\ \A i \in 1..Len(fn_result) :
               /\ Len(fn_result[i]) >= 3
               /\ Len(fn_result[i]) <= 50
               /\ ~HasDigit(fn_result[i])
               /\ ~HasNonNameWord(fn_result[i])
        /\ \A i, j \in 1..Len(fn_result) :
               StrLower(fn_result[i]) = StrLower(fn_result[j]) => i = j
        /\ fn_args = ExampleNames => fn_result = << "Professor Chrobak" >>

\* the words of a candidate
WordsOf(name) == StrSplit(StrStrip(StrLower(name)))

\* the names of the output that are not candidates: directory full names
AddedNames ==
    { j \in 1..Len(fn_result) :
        \A i \in 1..Len(fn_args.names) : fn_result[j] # fn_args.names[i] }

SingleWordCandidates ==
    { i \in 1..Len(fn_args.names) : Len(WordsOf(fn_args.names[i])) = 1 }

NoEntryMatches(name) ==
    \A k \in 1..Len(fn_args.rmp_professors) :
        ~MatchesPartialName(WordsOf(name)[1], fn_args.rmp_professors[k])

\* C23 as stated: at most 3 directory full names are added per single-word
\* candidate; a single-word candidate that no directory entry matches is in
\* the output; every multi-word candidate is in the output as it was given.
C23_ExpansionCappedCandidatesKept ==
    fn_pc = "returned" =>
        /\ Cardinality(AddedNames) <= 3 * Cardinality(SingleWordCandidates)
        /\ \A i \in 1..Len(fn_args.names) :
               LET name == fn_args.names[i]
               IN /\ (Len(WordsOf(name)) = 1 /\ NoEntryMatches(name))
                      => name \in Range(fn_result)
                  /\ Len(WordsOf(name)) >= 2 => name \in Range(fn_result)

\* no other candidate and no directory full name is equal to the name
\* ignoring case
NoOtherSpelling(name) ==
    /\ \A i \in 1..Len(fn_args.names) :
           StrLower(fn_args.names[i]) = StrLower(name) => fn_args.names[i] = name
    /\ \A k \in 1..Len(fn_args.rmp_professors) :
           StrLower(FullName(fn_args.rmp_professors[k])) = StrLower(name)
               => FullName(fn_args.rmp_professors[k]) = name

\* C23 (amended): the same, where a candidate that is kept is in the output
\* up to letter case, and as it was given when no other candidate and no
\* directory full name is equal to it ignoring case.
C23_ExpansionCappedCandidatesKeptUpToCase ==
    fn_pc = "returned" =>
        /\ Cardinality(AddedNames) <= 3 * Cardinality(SingleWordCandidates)
        /\ \A i \in 1..Len(fn_args.names) :
               LET name == fn_args.names[i]
               IN (\/ Len(WordsOf(name)) = 1 /\ NoEntryMatches(name)
                   \/ Len(WordsOf(name)) >= 2)
                      => /\ \E j \in 1..Len(fn_result) :
                                StrLower(fn_result[j]) = StrLower(name)
                         /\ NoOtherSpelling(name) => name \in Range(fn_result)

\* "Elena" against five entries with the first name Elena gives the first
\* three full names, and "elena smith" after it is kept as the first of them
C23_Witness ==
    /\ fn_pc = "returned"
    /\ fn_args.names = << "Elena", "elena smith" >>
    /\ fn_args.rmp_professors = SubSeq(Elenas, 1, 5)
    /\ fn_result = << "Elena Smith", "Elena Jones", "Elena Kim" >>

\* the score of a directory entry for a name: the largest of the
\* similarities to its full name, its first name and its last name
EntryScore(name, prof) ==
    LET full == Ratio(StrLower(name), StrLower(prof.firstName \o " " \o prof.lastName))
        first == Ratio(StrLower(name), StrLower(prof.firstName))
        last == Ratio(StrLower(name), StrLower(prof.lastName))
    IN CHOOSE x \in { full, first, last } :
           \A y \in { full, first, last } : ~FracLess(x, y)

\* C24: a name is mapped to a directory entry only if the entry's score is
\* at least the threshold and no entry scores higher; of the entries with
\* the best score the first in directory order is the one mapped to; with an
\* empty directory nothing is mapped.
C24_BestEntryFirstOnTies ==
    fn_pc = "returned" =>
        /\ DOMAIN fn_result \subseteq Range(fn_args.extracted_names)
        /\ fn_args.rmp_professors = <<>> => DOMAIN fn_result = {}
        /\ \A name \in DOMAIN fn_result :
               \E k \in 1..Len(fn_args.rmp_professors) :
                   LET dir == fn_args.rmp_professors
                       score == EntryScore(name, dir[k])
                   IN /\ fn_result[name].professor = dir[k]
                      /\ ~FracLess(score, fn_args.threshold)
                      /\ \A l \in 1..Len(dir) : ~FracLess(score, EntryScore(name, dir[l]))
                      /\ \A l \in 1..(k - 1) : FracLess(EntryScore(name, dir[l]), score)

\* "elena" scores 1 against two entries, and is mapped to the first of them
C24_Witness ==
    /\ fn_pc = "returned"
    /\ fn_args.extracted_names = << "elena" >>
    /\ fn_args.rmp_professors
           = << Professor("Elena", "Jones"), Professor("Elena", "Smith") >>
    /\ fn_args.threshold = DefaultThreshold
    /\ DOMAIN fn_result = { "elena" }
    /\ fn_result["elena"].professor = Professor("Elena", "Jones")

============================================================================
